---- MODULE Spec2Model ----
(***************************************************************************)
(* Watch-party backend: room directory, membership, playback               *)
(* synchroniser, watchlists and trivia, as the Express route handlers and  *)
(* the Mongoose schemas implement them.                                    *)
(*                                                                         *)
(* Every REST handler is one action: it reads the document, mutates it in  *)
(* memory and saves it, or returns early with a 4xx/5xx status and saves   *)
(* nothing.  A document is a record whose DOMAIN is the set of paths that  *)
(* are present; a path the schema does not declare is dropped when the     *)
(* document is cast (Mongoose strict mode), so it is absent when the       *)
(* document is read back.                                                  *)
(*                                                                         *)
(* src/routes/rooms.js holds two copies of the room router.  A route that  *)
(* both copies define is modelled from the first copy (lines 1-437); the   *)
(* routes only the second copy defines (watchlist vote and select, room    *)
(* trivia) are modelled from there.                                        *)
(***************************************************************************)
EXTENDS Integers, Sequences, FiniteSets, TLC

(***************************************************************************)
(* Bounds of the model.                                                    *)
(***************************************************************************)
NumUsers == 4
NumNames == 2
NumCodes == 2
MaxRooms == 2
MaxTrivia == 1
MaxEvents == 2
MaxWatchlist == 2
MaxClock == 2
NumConnections == 3
NumSlots == 2

\* The participant limit the handlers fall back to.  The source's value is
\* 50; the model bounds it so that a full room is reachable with NumUsers
\* users, and keeps it above 2 so that a limit set by the creator can lie
\* below it.
DefaultMaxParticipants == 3

Users == 1..NumUsers
Names == 1..NumNames
Codes == 1..NumCodes
RoomIds == 1..MaxRooms
Connections == 1..NumConnections
Slots == 1..NumSlots

\* An absent request field / an absent document (null).
None == 0
NoMovie == <<>>

VARIABLES
  rooms,          \* the Room collection: rooms[i] is the document with _id i
  userWatchlist,  \* User.watchlist of every user
  trivias,        \* the Trivia collection
  answers,        \* the TriviaAnswer collection
  resp,           \* the response to the last request
  clock,          \* the server's time (Date.now())
  sockets,        \* the connections that are open
  channels,       \* the relay's registry: channels[roomId] is the set of
                  \* connections joined to roomId
  delivered,      \* the last relayed event and the connections it reached
  inflight        \* the requests that have read their document and not yet
                  \* written it: inflight[s] for every handler slot s

vars == <<rooms, userWatchlist, trivias, answers, resp, clock, sockets, channels,
          delivered, inflight>>

(***************************************************************************)
(* Helpers: JavaScript object spread, schema casting, array methods.       *)
(***************************************************************************)
Merge(a, b) ==
  [k \in (DOMAIN a) \cup (DOMAIN b) |-> IF k \in DOMAIN b THEN b[k] ELSE a[k]]

Restrict(a, paths) == [k \in (DOMAIN a) \cap paths |-> a[k]]

Range(s) == {s[i] : i \in DOMAIN s}

Includes(s, x) == \E i \in DOMAIN s : s[i] = x

\* A handler slot with no request in it.
Idle == [op |-> "idle"]

\* What a request came to: the route, the requester, the room addressed,
\* the HTTP status, which return statement produced it, and a detail.
Reply(op, u, r, status, reason, arg) ==
  [op |-> op, user |-> u, room |-> r, status |-> status, reason |-> reason,
   arg |-> arg]

(***************************************************************************)
(* models/Room.js                                                          *)
(***************************************************************************)
MoviePaths == {"title", "url", "thumbnail", "currentTime", "isPlaying", "lastUpdated"}
SettingsPaths == {"videoLink"}
WatchlistItemPaths == {"movie", "addedBy", "addedAt"}

\* A new Room document: the schema defaults fill what roomData leaves out.
NewRoom(roomData) ==
  [name           |-> roomData.name,
   creator        |-> roomData.creator,
   participants   |-> roomData.participants,
   movie          |-> IF roomData.movie = NoMovie THEN NoMovie
                      ELSE Merge([lastUpdated |-> clock],
                                 Restrict(roomData.movie, MoviePaths)),
   settings       |-> [videoLink |-> ""],
   watchlist      |-> <<>>,
   isPrivate      |-> roomData.isPrivate,
   inviteCode     |-> IF "inviteCode" \in DOMAIN roomData
                      THEN roomData.inviteCode ELSE None,
   bannedUsers    |-> {},
   isActive       |-> TRUE,
   playbackEvents |-> <<>>,
   syncEvents     |-> <<>>]

\* The unique indexes on name and on inviteCode (sparse): saving a new
\* document that repeats either value fails with E11000.
DuplicateKey(doc) ==
  \E i \in DOMAIN rooms :
    \/ rooms[i].name = doc.name
    \/ doc.inviteCode # None /\ rooms[i].inviteCode = doc.inviteCode

\* (room.settings && room.settings.maxParticipants) || 50
ParticipantLimit(room) ==
  IF "maxParticipants" \in DOMAIN room.settings /\ room.settings.maxParticipants # 0
  THEN room.settings.maxParticipants
  ELSE DefaultMaxParticipants

\* Mutant: the filter is left out (as in the second copy of the router).
PurgeBanned_Keep(room) == room.participants

\* room.participants.filter(p => !room.bannedUsers.includes(p))
PurgeBanned(room) ==
  LET keep(p) == p \notin room.bannedUsers
  IN  SelectSeq(room.participants, keep)

(***************************************************************************)
(* POST /rooms                                                             *)
(***************************************************************************)
CreateMovies ==
  {NoMovie,
   [title |-> "t1", url |-> "link1", thumbnail |-> "th1",
    currentTime |-> 0, isPlaying |-> FALSE]}

\* Mutant: the invite code is generated for every room.
RoomData_AlwaysCode(u, name, movie, isPrivate, code) ==
  [name |-> name, creator |-> u, participants |-> <<u>>,
   movie |-> movie, isPrivate |-> isPrivate, inviteCode |-> code]

\* roomData; code is the value nanoid() returns.
RoomData(u, name, movie, isPrivate, code) ==
  LET base == [name |-> name, creator |-> u, participants |-> <<u>>,
               movie |-> movie, isPrivate |-> isPrivate]
  IN  IF isPrivate THEN Merge(base, [inviteCode |-> code]) ELSE base

CreateRoom(u, name, movie, isPrivate, code) ==
  LET doc == NewRoom(RoomData(u, name, movie, isPrivate, code)) IN
  /\ IF \E i \in DOMAIN rooms : rooms[i].name = name /\ rooms[i].isActive
     THEN /\ resp' = Reply("create", u, None, 400, "exists", name)
          /\ UNCHANGED rooms
     ELSE IF DuplicateKey(doc)
     THEN /\ resp' = Reply("create", u, None, 400, "E11000", name)
          /\ UNCHANGED rooms
     ELSE /\ Len(rooms) < MaxRooms
          /\ rooms' = Append(rooms, doc)
          /\ resp' = Reply("create", u, Len(rooms) + 1, 201, "ok", name)
  /\ UNCHANGED <<userWatchlist, trivias, answers>>
  /\ UNCHANGED <<clock, sockets, channels, delivered, inflight>>

(***************************************************************************)
(* POST /rooms/join and GET /rooms/:roomId                                 *)
(***************************************************************************)
\* Mutant: a return before the save still stores the purged participants.
EarlyReturn_Purged(r) ==
  IF r \in DOMAIN rooms
  THEN [rooms EXCEPT ![r].participants = PurgeBanned(rooms[r])]
  ELSE rooms

\* return res.status(4xx) before await room.save(): what the handler did to
\* its copy of room r is dropped and the collection is as it was.
EarlyReturn(r) == rooms

\* The tail both handlers share: purge banned participants, admit the
\* requester if there is room, save.
\* Mutant: the requester is pushed without the includes test.
Admit_AlwaysPush(room, u) ==
  [room EXCEPT !.participants = Append(PurgeBanned(room), u)]

Admit(room, u) ==
  LET purged == PurgeBanned(room) IN
  IF Includes(purged, u) THEN [room EXCEPT !.participants = purged]
  ELSE [room EXCEPT !.participants = Append(purged, u)]

\* Mutant: the comparison is > instead of >=.
AtCapacity_OffByOne(room, u) ==
  LET purged == PurgeBanned(room) IN
  /\ ~Includes(purged, u)
  /\ Len(purged) > ParticipantLimit(room)

AtCapacity(room, u) ==
  LET purged == PurgeBanned(room) IN
  /\ ~Includes(purged, u)
  /\ Len(purged) >= ParticipantLimit(room)

\* Mutant: the private-room check is left out.
PrivateGate_Open(room, u) == FALSE

\* if (room.isPrivate && !room.participants.includes(req.user.userId))
PrivateGate(room, u) ==
  room.isPrivate /\ ~Includes(PurgeBanned(room), u)

\* The detail of a successful join or get: how many banned participants the
\* purge removed and whether the requester was pushed onto participants.
Admission(room, u) ==
  [purged |-> Len(room.participants) - Len(PurgeBanned(room)),
   admitted |-> ~Includes(PurgeBanned(room), u)]

\* Mutant: the query leaves the invite code out.
FindByCode_AnyCode(code) ==
  IF \E i \in DOMAIN rooms : rooms[i].isActive
  THEN CHOOSE i \in DOMAIN rooms :
         /\ rooms[i].isActive
         /\ \A j \in DOMAIN rooms : rooms[j].isActive => i <= j
  ELSE None

\* Room.findOne({ inviteCode, isActive: true })
FindByCode(code) ==
  IF \E i \in DOMAIN rooms : rooms[i].inviteCode = code /\ rooms[i].isActive
  THEN CHOOSE i \in DOMAIN rooms :
         /\ rooms[i].inviteCode = code /\ rooms[i].isActive
         /\ \A j \in DOMAIN rooms :
              rooms[j].inviteCode = code /\ rooms[j].isActive => i <= j
  ELSE None

\* Mutant: any invite code passes.
InviteGate_AnyCode(room, u, inviteCode) ==
  room.creator # u /\ inviteCode = None

\* if (room.creator.toString() !== req.user.userId)
\*   if (!inviteCode || inviteCode !== room.inviteCode) -> 403
InviteGate(room, u, inviteCode) ==
  room.creator # u /\ (inviteCode = None \/ inviteCode # room.inviteCode)

JoinRoom(u, roomId, inviteCode) ==
  LET r == IF roomId # None THEN roomId
           ELSE IF inviteCode = None THEN None
           ELSE FindByCode(inviteCode)
      fail(status, reason) ==
        /\ resp' = Reply("join", u, r, status, reason, None)
        /\ rooms' = EarlyReturn(r)
  IN
  /\ IF roomId # None /\ (roomId \notin DOMAIN rooms \/ ~rooms[roomId].isActive)
     THEN fail(404, "notfound")
     ELSE IF roomId # None /\ InviteGate(rooms[roomId], u, inviteCode)
     THEN fail(403, "invite")
     ELSE IF roomId = None /\ inviteCode = None
     THEN fail(400, "required")
     ELSE IF r = None
     THEN fail(404, "notfound")
     ELSE IF u \in rooms[r].bannedUsers
     THEN fail(403, "banned")
     ELSE IF AtCapacity(rooms[r], u)
     THEN fail(403, "capacity")
     ELSE /\ rooms' = [rooms EXCEPT ![r] = Admit(rooms[r], u)]
          /\ resp' = Reply("join", u, r, 200, "ok", Admission(rooms[r], u))
  /\ UNCHANGED <<userWatchlist, trivias, answers>>
  /\ UNCHANGED <<clock, sockets, channels, delivered, inflight>>

GetRoom(u, roomId) ==
  LET fail(status, reason) ==
        /\ resp' = Reply("get", u, roomId, status, reason, None)
        /\ rooms' = EarlyReturn(roomId)
  IN
  /\ IF roomId \notin DOMAIN rooms
     THEN fail(404, "notfound")
     ELSE IF u \in rooms[roomId].bannedUsers
     THEN fail(403, "banned")
     ELSE IF PrivateGate(rooms[roomId], u)
     THEN fail(403, "private")
     ELSE IF AtCapacity(rooms[roomId], u)
     THEN fail(403, "capacity")
     ELSE /\ rooms' = [rooms EXCEPT ![roomId] = Admit(rooms[roomId], u)]
          /\ resp' = Reply("get", u, roomId, 200, "ok", Admission(rooms[roomId], u))
  /\ UNCHANGED <<userWatchlist, trivias, answers>>
  /\ UNCHANGED <<clock, sockets, channels, delivered, inflight>>

(***************************************************************************)
(* DELETE /rooms/:roomId                                                   *)
(***************************************************************************)
\* Mutant: the delete also empties the room.
Deactivate_AndEmpty(room) ==
  [room EXCEPT !.isActive = FALSE, !.participants = <<>>]

\* room.isActive = false
Deactivate(room) == [room EXCEPT !.isActive = FALSE]

DeleteRoom(u, roomId) ==
  /\ IF roomId \notin DOMAIN rooms
     THEN /\ resp' = Reply("delete", u, roomId, 404, "notfound", None)
          /\ UNCHANGED rooms
     ELSE IF rooms[roomId].creator # u
     THEN /\ resp' = Reply("delete", u, roomId, 403, "creator", None)
          /\ UNCHANGED rooms
     ELSE /\ rooms' = [rooms EXCEPT ![roomId] = Deactivate(rooms[roomId])]
          /\ resp' = Reply("delete", u, roomId, 200, "ok", None)
  /\ UNCHANGED <<userWatchlist, trivias, answers>>
  /\ UNCHANGED <<clock, sockets, channels, delivered, inflight>>

(***************************************************************************)
(* bannedUsers: no route writes it; a ban is a write to the stored         *)
(* document from outside the routes.                                       *)
(***************************************************************************)
BanUser(u, roomId) ==
  /\ roomId \in DOMAIN rooms
  /\ u \notin rooms[roomId].bannedUsers
  /\ rooms' = [rooms EXCEPT ![roomId].bannedUsers = @ \cup {u}]
  /\ resp' = Reply("ban", u, roomId, 0, "external", None)
  /\ UNCHANGED <<userWatchlist, trivias, answers>>
  /\ UNCHANGED <<clock, sockets, channels, delivered, inflight>>

(***************************************************************************)
(* PATCH /rooms/:roomId/movie                                              *)
(***************************************************************************)
Times == {0, 2, 7}

\* The playback reports: currentTime and isPlaying, with or without a
\* timestamp (0 is a timestamp a client can send).
Reports ==
  {Merge([currentTime |-> t, isPlaying |-> p], ts) :
     t \in Times, p \in BOOLEAN,
     ts \in {<<>>, [timestamp |-> 0], [timestamp |-> 1]}}

Abs(x) == IF x < 0 THEN -x ELSE x

\* if (req.body.timestamp): the field is present and truthy
HasTimestamp(body) == "timestamp" \in DOMAIN body /\ body.timestamp # 0

\* The event type, from the stored movie and the incoming report.
EventType(movie, body) ==
  IF movie # NoMovie /\ movie.isPlaying # body.isPlaying
  THEN (IF body.isPlaying THEN "play" ELSE "pause")
  ELSE IF movie # NoMovie /\ Abs(movie.currentTime - body.currentTime) > 5
  THEN "seek"
  ELSE IF HasTimestamp(body) THEN "sync"
  ELSE "seek"

\* Mutant: the drift sample uses the seek threshold.
HasDrift_SeekThreshold(movie, body) ==
  movie # NoMovie /\ Abs(movie.currentTime - body.currentTime) > 5

\* The drift sample is logged when the difference exceeds two seconds.
HasDrift(movie, body) ==
  movie # NoMovie /\ Abs(movie.currentTime - body.currentTime) > 2

\* Mutant: the participant check is left out.
IsParticipant_Anyone(room, u) == TRUE

\* room.participants.includes(req.user.userId)
IsParticipant(room, u) == Includes(room.participants, u)

\* Mutant: the report is merged into the stored movie.
MovieAfterReport_Merge(room, body) ==
  Restrict(Merge(room.movie, Merge(body, [lastUpdated |-> clock])), MoviePaths)

\* room.movie = { ...req.body, lastUpdated: new Date() }, cast by the schema
MovieAfterReport(room, body) ==
  Restrict(Merge(body, [lastUpdated |-> clock]), MoviePaths)

\* The entry pushed onto playbackEvents.
PlaybackEvent(room, u, body) ==
  [type |-> EventType(room.movie, body), userId |-> u, timestamp |-> clock]

\* The entry pushed onto syncEvents.
SyncEvent(room, u, body) ==
  [userId |-> u, difference |-> room.movie.currentTime - body.currentTime,
   timestamp |-> clock]

\* Mutant: only a change of play state is logged.
LogPlayback_ChangesOnly(room, u, body) ==
  IF EventType(room.movie, body) \in {"play", "pause"}
  THEN Append(room.playbackEvents, PlaybackEvent(room, u, body))
  ELSE room.playbackEvents

\* room.playbackEvents.push({type, userId, timestamp})
LogPlayback(room, u, body) ==
  Append(room.playbackEvents, PlaybackEvent(room, u, body))

UpdateMovie(u, roomId, body) ==
  /\ IF roomId \notin DOMAIN rooms
     THEN /\ resp' = Reply("movie", u, roomId, 404, "notfound", None)
          /\ UNCHANGED rooms
     ELSE IF ~IsParticipant(rooms[roomId], u)
     THEN /\ resp' = Reply("movie", u, roomId, 403, "participant", None)
          /\ UNCHANGED rooms
     ELSE LET room == rooms[roomId]
          IN  /\ Len(room.playbackEvents) < MaxEvents
              /\ rooms' = [rooms EXCEPT ![roomId] =
                   [room EXCEPT
                      !.playbackEvents = LogPlayback(room, u, body),
                      !.syncEvents = IF HasDrift(room.movie, body)
                                     THEN Append(@, SyncEvent(room, u, body))
                                     ELSE @,
                      !.movie = MovieAfterReport(room, body)]]
              /\ resp' = Reply("movie", u, roomId, 200, "ok", None)
  /\ UNCHANGED <<userWatchlist, trivias, answers>>
  /\ UNCHANGED <<clock, sockets, channels, delivered, inflight>>

(***************************************************************************)
(* Requests that overlap.  A handler awaits the document it reads and      *)
(* awaits the save: between the two, other handlers run.  The save sends   *)
(* the paths the handler modified, not the document: a push onto an array  *)
(* is sent as a push, an assigned nested object or array as a set of that  *)
(* path.  A save that sets a whole array, or touches an element of an      *)
(* array, is conditional on the version (__v) the handler read, and fails  *)
(* if a save that came in between has moved it; a save that only pushes    *)
(* moves the version without testing it.                                   *)
(***************************************************************************)
\* No request is between its read and its save.
Quiet == \A s \in Slots : inflight[s] = Idle

\* The requests on document id of a collection other than slot s's have
\* read a version that is no longer the stored one.
MoveVersion(s, collection, id) ==
  [t \in Slots |->
     IF t = s THEN Idle
     ELSE IF inflight[t] # Idle /\ inflight[t].collection = collection
             /\ inflight[t].id = id
     THEN [inflight[t] EXCEPT !.current = FALSE]
     ELSE inflight[t]]

\* const room = await Room.findById(req.params.roomId) of the report route
BeginUpdateMovie(s, u, roomId, body) ==
  /\ inflight[s] = Idle
  /\ inflight' = [inflight EXCEPT ![s] =
        [op |-> "movie", collection |-> "rooms", id |-> roomId, user |-> u,
         body |-> body, found |-> roomId \in DOMAIN rooms,
         doc |-> IF roomId \in DOMAIN rooms THEN rooms[roomId] ELSE <<>>,
         current |-> TRUE]]
  /\ UNCHANGED <<rooms, userWatchlist, trivias, answers, resp, clock, sockets,
                 channels, delivered>>

\* Mutant: the save sets the movie's fields one by one.
SavedMovie_PerField(stored, req) ==
  Merge(stored.movie, MovieAfterReport(req.doc, req.body))

\* What the save leaves in movie: the path is set as a whole to the object
\* the handler assigned.
SavedMovie(stored, req) == MovieAfterReport(req.doc, req.body)

\* The rest of the report route, from the participant check to the
\* response, run on the document that was read; await room.save() sends the
\* two pushes and the set of movie.
EndUpdateMovie(s) ==
  LET req == inflight[s] IN
  /\ req # Idle /\ req.op = "movie"
  /\ IF ~req.found
     THEN /\ resp' = Reply("movie", req.user, req.id, 404, "notfound", None)
          /\ inflight' = [inflight EXCEPT ![s] = Idle]
          /\ UNCHANGED rooms
     ELSE IF ~IsParticipant(req.doc, req.user)
     THEN /\ resp' = Reply("movie", req.user, req.id, 403, "participant", None)
          /\ inflight' = [inflight EXCEPT ![s] = Idle]
          /\ UNCHANGED rooms
     ELSE LET stored == rooms[req.id] IN
          /\ Len(stored.playbackEvents) < MaxEvents
          /\ rooms' = [rooms EXCEPT ![req.id] =
               [stored EXCEPT
                  !.playbackEvents = Append(@, PlaybackEvent(req.doc, req.user, req.body)),
                  !.syncEvents = IF HasDrift(req.doc.movie, req.body)
                                 THEN Append(@, SyncEvent(req.doc, req.user, req.body))
                                 ELSE @,
                  !.movie = SavedMovie(stored, req)]]
          /\ inflight' = MoveVersion(s, "rooms", req.id)
          /\ resp' = Reply("movie", req.user, req.id, 200, "ok",
                           [overlapped |-> stored # req.doc])
  /\ UNCHANGED <<userWatchlist, trivias, answers, clock, sockets, channels,
                 delivered>>

\* The first await of the join route (Room.findById, or Room.findOne by
\* invite code) and of the get route (Room.findById): the room is read.
BeginJoinRoom(s, u, roomId, inviteCode) ==
  LET r == IF roomId # None THEN roomId
           ELSE IF inviteCode = None THEN None
           ELSE FindByCode(inviteCode)
  IN
  /\ inflight[s] = Idle
  /\ inflight' = [inflight EXCEPT ![s] =
        [op |-> "join", collection |-> "rooms", id |-> r, user |-> u,
         body |-> [roomId |-> roomId, inviteCode |-> inviteCode],
         found |-> r \in DOMAIN rooms,
         doc |-> IF r \in DOMAIN rooms THEN rooms[r] ELSE <<>>,
         current |-> TRUE]]
  /\ UNCHANGED <<rooms, userWatchlist, trivias, answers, resp, clock, sockets,
                 channels, delivered>>

BeginGetRoom(s, u, roomId) ==
  /\ inflight[s] = Idle
  /\ inflight' = [inflight EXCEPT ![s] =
        [op |-> "get", collection |-> "rooms", id |-> roomId, user |-> u,
         body |-> <<>>, found |-> roomId \in DOMAIN rooms,
         doc |-> IF roomId \in DOMAIN rooms THEN rooms[roomId] ELSE <<>>,
         current |-> TRUE]]
  /\ UNCHANGED <<rooms, userWatchlist, trivias, answers, resp, clock, sockets,
                 channels, delivered>>

\* The checks of the two routes before the shared tail, on the room read.
AdmissionRefusal(req) ==
  IF req.op = "join"
  THEN IF req.body.roomId # None /\ (~req.found \/ ~req.doc.isActive)
       THEN [status |-> 404, reason |-> "notfound"]
       ELSE IF req.body.roomId # None
               /\ InviteGate(req.doc, req.user, req.body.inviteCode)
       THEN [status |-> 403, reason |-> "invite"]
       ELSE IF req.body.roomId = None /\ req.body.inviteCode = None
       THEN [status |-> 400, reason |-> "required"]
       ELSE IF ~req.found
       THEN [status |-> 404, reason |-> "notfound"]
       ELSE IF req.user \in req.doc.bannedUsers
       THEN [status |-> 403, reason |-> "banned"]
       ELSE IF AtCapacity(req.doc, req.user)
       THEN [status |-> 403, reason |-> "capacity"]
       ELSE [status |-> 200, reason |-> "ok"]
  ELSE IF ~req.found
       THEN [status |-> 404, reason |-> "notfound"]
       ELSE IF req.user \in req.doc.bannedUsers
       THEN [status |-> 403, reason |-> "banned"]
       ELSE IF PrivateGate(req.doc, req.user)
       THEN [status |-> 403, reason |-> "private"]
       ELSE IF AtCapacity(req.doc, req.user)
       THEN [status |-> 403, reason |-> "capacity"]
       ELSE [status |-> 200, reason |-> "ok"]

\* The rest of either route, run on the room that was read.  await
\* room.save() sends what the handler changed: when the purge removed
\* someone, participants is set as a whole and the write carries the version
\* that was read, so it is refused (500) once another save has moved the
\* version; when only the requester was pushed, a $push is sent, which
\* carries no version and lands on the stored array; otherwise nothing.
EndAdmission(s) ==
  LET req == inflight[s]
      refusal == AdmissionRefusal(req)
      detail == Admission(req.doc, req.user)
  IN
  /\ req # Idle /\ req.op \in {"join", "get"}
  /\ IF refusal.status # 200
     THEN /\ resp' = Reply(req.op, req.user, req.id, refusal.status,
                           refusal.reason, None)
          /\ inflight' = [inflight EXCEPT ![s] = Idle]
          /\ UNCHANGED rooms
     ELSE IF detail.purged > 0
     THEN IF req.current
          THEN /\ rooms' = [rooms EXCEPT ![req.id].participants =
                              Admit(req.doc, req.user).participants]
               /\ inflight' = MoveVersion(s, "rooms", req.id)
               /\ resp' = Reply(req.op, req.user, req.id, 200, "ok", detail)
          ELSE /\ resp' = Reply(req.op, req.user, req.id, 500, "version", None)
               /\ inflight' = [inflight EXCEPT ![s] = Idle]
               /\ UNCHANGED rooms
     ELSE IF detail.admitted
     THEN /\ rooms' = [rooms EXCEPT ![req.id].participants =
                         Append(@, req.user)]
          /\ inflight' = MoveVersion(s, "rooms", req.id)
          /\ resp' = Reply(req.op, req.user, req.id, 200, "ok", detail)
     ELSE /\ resp' = Reply(req.op, req.user, req.id, 200, "ok", detail)
          /\ inflight' = [inflight EXCEPT ![s] = Idle]
          /\ UNCHANGED rooms
  /\ UNCHANGED <<userWatchlist, trivias, answers, clock, sockets, channels,
                 delivered>>

(***************************************************************************)
(* PATCH /rooms/:roomId/settings                                           *)
(***************************************************************************)
AllowedSettings ==
  {"maxParticipants", "allowChat", "allowWatchlist", "allowTrivia", "autoplay",
   "description", "videoLink"}

SettingsBodies ==
  {Merge(mp, vl) : mp \in {<<>>, [maxParticipants |-> 1]},
                   vl \in {<<>>, [videoLink |-> "link2"]}}

\* room.settings = { ...room.settings, ...settings }, cast by the schema
NewSettings(room, body) ==
  Restrict(Merge(room.settings, Restrict(body, AllowedSettings)), SettingsPaths)

\* A new videoLink also resets the movie.
MovieAfterSettings(room, body) ==
  IF "videoLink" \in DOMAIN body
  THEN Merge(room.movie,
             [url |-> body.videoLink, title |-> "Custom Video",
              currentTime |-> 0, isPlaying |-> FALSE, lastUpdated |-> clock])
  ELSE room.movie

UpdateSettings(u, roomId, body) ==
  /\ IF roomId \notin DOMAIN rooms
     THEN /\ resp' = Reply("settings", u, roomId, 404, "notfound", None)
          /\ UNCHANGED rooms
     ELSE IF rooms[roomId].creator # u
     THEN /\ resp' = Reply("settings", u, roomId, 403, "creator", None)
          /\ UNCHANGED rooms
     ELSE /\ rooms' = [rooms EXCEPT ![roomId] =
                 [rooms[roomId] EXCEPT
                    !.settings = NewSettings(rooms[roomId], body),
                    !.movie = MovieAfterSettings(rooms[roomId], body)]]
          /\ resp' = Reply("settings", u, roomId, 200, "ok",
                            IF "maxParticipants" \in DOMAIN body
                            THEN body.maxParticipants ELSE None)
  /\ UNCHANGED <<userWatchlist, trivias, answers>>
  /\ UNCHANGED <<clock, sockets, channels, delivered, inflight>>

(***************************************************************************)
(* Room watchlist: POST /rooms/:roomId/watchlist, .../:movieId/vote and    *)
(* .../:movieId/select                                                     *)
(***************************************************************************)
MovieIds == {"m1", "m2"}
Titles == {"t1", "t2"}

\* The movie summaries a client posts.
Summaries ==
  [id : MovieIds, title : Titles, thumbnail : {"th1"}, year : {"2020"}]

\* Mutant: the last match is found.
FindItem_Last(list, movieId) ==
  IF \E i \in DOMAIN list : list[i].movie.id = movieId
  THEN CHOOSE i \in DOMAIN list :
         /\ list[i].movie.id = movieId
         /\ \A j \in DOMAIN list : list[j].movie.id = movieId => i >= j
  ELSE None

\* watchlist.find(item => item.movie.id === movieId): the index of the first
\* match, None if there is none.
FindItem(list, movieId) ==
  IF \E i \in DOMAIN list : list[i].movie.id = movieId
  THEN CHOOSE i \in DOMAIN list :
         /\ list[i].movie.id = movieId
         /\ \A j \in DOMAIN list : list[j].movie.id = movieId => i <= j
  ELSE None

\* watchlist.filter(item => item.movie.id !== movieId)
RemoveMovie(list, movieId) ==
  LET keep(item) == item.movie.id # movieId
  IN  SelectSeq(list, keep)

\* votes.includes(u) ? votes.filter(v => v !== u) : votes.push(u)
ToggleVote(votes, u) ==
  LET keep(v) == v # u
  IN  IF Includes(votes, u) THEN SelectSeq(votes, keep) ELSE Append(votes, u)

\* The entry the add route pushes, as the Room schema casts it.
RoomWatchlistItem(u, movie) ==
  Restrict([movie |-> movie, addedBy |-> u, votes |-> <<u>>], WatchlistItemPaths)

AddToWatchlist(u, roomId, movie) ==
  /\ IF roomId \notin DOMAIN rooms
     THEN /\ resp' = Reply("add", u, roomId, 404, "notfound", movie.id)
          /\ UNCHANGED rooms
     ELSE IF ~Includes(rooms[roomId].participants, u)
     THEN /\ resp' = Reply("add", u, roomId, 403, "participant", movie.id)
          /\ UNCHANGED rooms
     ELSE /\ Len(rooms[roomId].watchlist) < MaxWatchlist
          /\ rooms' = [rooms EXCEPT ![roomId].watchlist =
                         Append(@, RoomWatchlistItem(u, movie))]
          /\ resp' = Reply("add", u, roomId, 200, "ok", movie.id)
  /\ UNCHANGED <<userWatchlist, trivias, answers>>
  /\ UNCHANGED <<clock, sockets, channels, delivered, inflight>>

VoteRoom(u, roomId, movieId) ==
  LET fail(status, reason) ==
        /\ resp' = Reply("vote", u, roomId, status, reason, movieId)
        /\ UNCHANGED rooms
  IN
  /\ IF roomId \notin DOMAIN rooms
     THEN fail(404, "notfound")
     ELSE IF ~Includes(rooms[roomId].participants, u)
     THEN fail(403, "participant")
     ELSE IF FindItem(rooms[roomId].watchlist, movieId) = None
     THEN fail(404, "nomovie")
     ELSE LET i == FindItem(rooms[roomId].watchlist, movieId)
              item == rooms[roomId].watchlist[i]
          IN  IF "votes" \notin DOMAIN item
              THEN \* watchlistItem.votes is undefined: .includes throws
                   fail(500, "TypeError")
              ELSE /\ rooms' = [rooms EXCEPT ![roomId].watchlist[i] =
                          Merge(item, [votes |-> ToggleVote(item.votes, u)])]
                   /\ resp' = Reply("vote", u, roomId, 200, "ok", movieId)
  /\ UNCHANGED <<userWatchlist, trivias, answers>>
  /\ UNCHANGED <<clock, sockets, channels, delivered, inflight>>

\* Mutant: the selected movie starts paused.
SelectedMovie_Paused(item) ==
  [title |-> item.movie.title,
   url |-> "https://www.youtube.com/watch?v=" \o item.movie.id,
   thumbnail |-> item.movie.thumbnail,
   currentTime |-> 0,
   isPlaying |-> FALSE]

\* The movie a selected entry becomes.
SelectedMovie(item) ==
  [title |-> item.movie.title,
   url |-> "https://www.youtube.com/watch?v=" \o item.movie.id,
   thumbnail |-> item.movie.thumbnail,
   currentTime |-> 0,
   isPlaying |-> TRUE]

SelectFromWatchlist(u, roomId, movieId) ==
  LET fail(status, reason) ==
        /\ resp' = Reply("select", u, roomId, status, reason, movieId)
        /\ UNCHANGED rooms
  IN
  /\ IF roomId \notin DOMAIN rooms
     THEN fail(404, "notfound")
     ELSE IF rooms[roomId].creator # u
     THEN fail(403, "creator")
     ELSE IF FindItem(rooms[roomId].watchlist, movieId) = None
     THEN fail(404, "nomovie")
     ELSE LET room == rooms[roomId]
              item == room.watchlist[FindItem(room.watchlist, movieId)]
          IN  /\ rooms' = [rooms EXCEPT ![roomId] =
                   [room EXCEPT
                      !.movie = Restrict(SelectedMovie(item), MoviePaths),
                      !.watchlist = RemoveMovie(@, item.movie.id)]]
              /\ resp' = Reply("select", u, roomId, 200, "ok", movieId)
  /\ UNCHANGED <<userWatchlist, trivias, answers>>
  /\ UNCHANGED <<clock, sockets, channels, delivered, inflight>>

(***************************************************************************)
(* User watchlist: /users/watchlist (models/User.js, routes/users.js)      *)
(***************************************************************************)
UserWatchlistItemPaths == {"movie", "votes", "addedAt"}

UserWatchlistItem(u, movie) ==
  Restrict([movie |-> movie, votes |-> <<u>>], UserWatchlistItemPaths)

\* Mutant: the duplicate test is left out.
HasMovie_Never(list, movieId) == FALSE

\* user.watchlist.some(item => item.movie.id === movie.id)
HasMovie(list, movieId) == \E i \in DOMAIN list : list[i].movie.id = movieId

AddUserWatchlist(u, movie) ==
  /\ IF HasMovie(userWatchlist[u], movie.id)
     THEN /\ resp' = Reply("userAdd", u, None, 400, "exists", movie.id)
          /\ UNCHANGED userWatchlist
     ELSE /\ Len(userWatchlist[u]) < MaxWatchlist
          /\ userWatchlist' = [userWatchlist EXCEPT ![u] =
                                 Append(@, UserWatchlistItem(u, movie))]
          /\ resp' = Reply("userAdd", u, None, 200, "ok", movie.id)
  /\ UNCHANGED <<rooms, trivias, answers>>
  /\ UNCHANGED <<clock, sockets, channels, delivered, inflight>>

RemoveUserWatchlist(u, movieId) ==
  /\ userWatchlist' = [userWatchlist EXCEPT ![u] = RemoveMovie(@, movieId)]
  /\ resp' = Reply("userRemove", u, None, 200, "ok", movieId)
  /\ UNCHANGED <<rooms, trivias, answers>>
  /\ UNCHANGED <<clock, sockets, channels, delivered, inflight>>

VoteUser(u, movieId) ==
  /\ IF FindItem(userWatchlist[u], movieId) = None
     THEN /\ resp' = Reply("userVote", u, None, 404, "nomovie", movieId)
          /\ UNCHANGED userWatchlist
     ELSE LET i == FindItem(userWatchlist[u], movieId)
              item == userWatchlist[u][i]
          IN  /\ userWatchlist' = [userWatchlist EXCEPT ![u][i] =
                     Merge(item, [votes |-> ToggleVote(item.votes, u)])]
              /\ resp' = Reply("userVote", u, None, 200, "ok", movieId)
  /\ UNCHANGED <<rooms, trivias, answers>>
  /\ UNCHANGED <<clock, sockets, channels, delivered, inflight>>

SelectUser(u, movieId) ==
  /\ IF FindItem(userWatchlist[u], movieId) = None
     THEN /\ resp' = Reply("userSelect", u, None, 404, "nomovie", movieId)
          /\ UNCHANGED userWatchlist
     ELSE /\ userWatchlist' = [userWatchlist EXCEPT ![u] = RemoveMovie(@, movieId)]
          /\ resp' = Reply("userSelect", u, None, 200, "ok", movieId)
  /\ UNCHANGED <<rooms, trivias, answers>>
  /\ UNCHANGED <<clock, sockets, channels, delivered, inflight>>

\* const user = await User.findById(req.user.userId) of the vote route
BeginVoteUser(s, u, movieId) ==
  /\ inflight[s] = Idle
  /\ inflight' = [inflight EXCEPT ![s] =
        [op |-> "userVote", collection |-> "users", id |-> u, user |-> u,
         body |-> movieId, found |-> TRUE, doc |-> userWatchlist[u],
         current |-> TRUE]]
  /\ UNCHANGED <<rooms, userWatchlist, trivias, answers, resp, clock, sockets,
                 channels, delivered>>

\* Mutant: the update carries no version condition.
VersionCurrent_Unchecked(req) == TRUE

\* The save of a change to watchlist.<i>.votes, an array inside an element
\* of an array, is sent with the version that was read as a condition: it
\* finds the document only while no other save has moved the version.
VersionCurrent(req) == req.current

\* The rest of the vote route, run on the user that was read: the toggle of
\* the first matching entry's votes and await user.save(), which is refused
\* (500) when the version has moved.
EndVoteUser(s) ==
  LET req == inflight[s]
      i == FindItem(req.doc, req.body)
  IN
  /\ req # Idle /\ req.op = "userVote"
  /\ IF i = None
     THEN /\ resp' = Reply("userVote", req.user, None, 404, "nomovie", req.body)
          /\ inflight' = [inflight EXCEPT ![s] = Idle]
          /\ UNCHANGED userWatchlist
     ELSE IF ~VersionCurrent(req)
     THEN /\ resp' = Reply("userVote", req.user, None, 500, "version", req.body)
          /\ inflight' = [inflight EXCEPT ![s] = Idle]
          /\ UNCHANGED userWatchlist
     ELSE /\ userWatchlist' = [userWatchlist EXCEPT ![req.user][i].votes =
               IF Includes(req.doc[i].votes, req.user)
               THEN ToggleVote(req.doc[i].votes, req.user)
               ELSE Append(@, req.user)]
          /\ inflight' = MoveVersion(s, "users", req.user)
          /\ resp' = Reply("userVote", req.user, None, 200, "ok", req.body)
  /\ UNCHANGED <<rooms, trivias, answers, clock, sockets, channels, delivered>>

(***************************************************************************)
(* Trivia: POST /trivia, POST /trivia/:id/answer (routes/trivia.js) and    *)
(* POST /rooms/:roomId/trivia, .../trivia/:triviaId/answer                 *)
(***************************************************************************)
Answers == {"A", "B"}

\* A new Trivia document; points defaults to 0.  room is None for the
\* global trivia bank.
NewTrivia(u, roomId, correctAnswer) ==
  [room |-> roomId, correctAnswer |-> correctAnswer, createdBy |-> u, points |-> 0]

CreateTrivia(u, numOptions, correctAnswer) ==
  /\ IF correctAnswer = ""
     THEN /\ resp' = Reply("trivia", u, None, 400, "missing", None)
          /\ UNCHANGED trivias
     ELSE IF numOptions # 4
     THEN /\ resp' = Reply("trivia", u, None, 400, "options", None)
          /\ UNCHANGED trivias
     ELSE /\ Len(trivias) < MaxTrivia
          /\ trivias' = Append(trivias, NewTrivia(u, None, correctAnswer))
          /\ resp' = Reply("trivia", u, None, 201, "ok", None)
  /\ UNCHANGED <<rooms, userWatchlist, answers>>
  /\ UNCHANGED <<clock, sockets, channels, delivered, inflight>>

CreateRoomTrivia(u, roomId, correctAnswer) ==
  /\ IF correctAnswer = ""
     THEN \* correctAnswer is required: the save fails validation
          /\ resp' = Reply("roomTrivia", u, roomId, 500, "validation", None)
          /\ UNCHANGED trivias
     ELSE /\ Len(trivias) < MaxTrivia
          /\ trivias' = Append(trivias, NewTrivia(u, roomId, correctAnswer))
          /\ resp' = Reply("roomTrivia", u, roomId, 201, "ok", None)
  /\ UNCHANGED <<rooms, userWatchlist, answers>>
  /\ UNCHANGED <<clock, sockets, channels, delivered, inflight>>

\* TriviaAnswer.findOne({ userId, triviaId })
ExistingAnswer(u, triviaId) ==
  {a \in answers : a.userId = u /\ a.triviaId = triviaId}

AnswerTrivia(u, triviaId, answer) ==
  /\ IF answer = ""
     THEN /\ resp' = Reply("answer", u, None, 400, "required", None)
          /\ UNCHANGED <<trivias, answers>>
     ELSE IF triviaId \notin DOMAIN trivias
     THEN /\ resp' = Reply("answer", u, None, 404, "notfound", None)
          /\ UNCHANGED <<trivias, answers>>
     ELSE IF ExistingAnswer(u, triviaId) # {}
     THEN LET existing == CHOOSE a \in ExistingAnswer(u, triviaId) : TRUE
          IN  /\ resp' = Reply("answer", u, None, 200, "already",
                               [isCorrect |-> existing.isCorrect,
                                points |-> trivias[triviaId].points])
              /\ UNCHANGED <<trivias, answers>>
     ELSE LET isCorrect == trivias[triviaId].correctAnswer = answer
              points == IF isCorrect THEN trivias[triviaId].points + 1
                        ELSE trivias[triviaId].points
          IN  /\ answers' = answers \cup
                   {[userId |-> u, triviaId |-> triviaId, answer |-> answer,
                     isCorrect |-> isCorrect]}
              /\ trivias' = [trivias EXCEPT ![triviaId].points = points]
              /\ resp' = Reply("answer", u, None, 200, "ok",
                               [isCorrect |-> isCorrect,
                                points |-> points])
  /\ UNCHANGED <<rooms, userWatchlist>>
  /\ UNCHANGED <<clock, sockets, channels, delivered, inflight>>

AnswerRoomTrivia(u, roomId, triviaId, answer) ==
  /\ IF triviaId \notin DOMAIN trivias \/ trivias[triviaId].room # roomId
     THEN resp' = Reply("roomAnswer", u, roomId, 404, "notfound", None)
     ELSE resp' = Reply("roomAnswer", u, roomId, 200, "ok",
                        [isCorrect |-> (answer = trivias[triviaId].correctAnswer)])
  /\ UNCHANGED <<rooms, userWatchlist, trivias, answers>>
  /\ UNCHANGED <<clock, sockets, channels, delivered, inflight>>

(***************************************************************************)
(* POST /api/trivia/:id/answer, await by await: the trivia is read, the    *)
(* user's stored answer is looked up, the answer is inserted, the points   *)
(* are saved.                                                              *)
(***************************************************************************)
\* if (!answer) -> 400; const trivia = await Trivia.findById(triviaId)
BeginAnswerTrivia(s, u, triviaId, answer) ==
  /\ inflight[s] = Idle
  /\ IF answer = ""
     THEN /\ resp' = Reply("answer", u, None, 400, "required", None)
          /\ UNCHANGED inflight
     ELSE /\ inflight' = [inflight EXCEPT ![s] =
               [op |-> "answer", stage |-> "lookup", collection |-> "trivias",
                id |-> triviaId, user |-> u, body |-> answer,
                found |-> triviaId \in DOMAIN trivias,
                doc |-> IF triviaId \in DOMAIN trivias THEN trivias[triviaId]
                        ELSE <<>>,
                current |-> TRUE]]
          /\ UNCHANGED resp
  /\ UNCHANGED <<rooms, userWatchlist, trivias, answers, clock, sockets,
                 channels, delivered>>

\* if (!trivia) -> 404; const existingAnswer = await TriviaAnswer.findOne(...)
\* if (existingAnswer) -> the stored outcome
LookupAnswer(s) ==
  LET req == inflight[s] IN
  /\ req # Idle /\ req.op = "answer" /\ req.stage = "lookup"
  /\ IF ~req.found
     THEN /\ resp' = Reply("answer", req.user, None, 404, "notfound", None)
          /\ inflight' = [inflight EXCEPT ![s] = Idle]
     ELSE IF ExistingAnswer(req.user, req.id) # {}
     THEN LET existing == CHOOSE a \in ExistingAnswer(req.user, req.id) : TRUE
          IN  /\ resp' = Reply("answer", req.user, None, 200, "already",
                               [isCorrect |-> existing.isCorrect,
                                points |-> req.doc.points])
              /\ inflight' = [inflight EXCEPT ![s] = Idle]
     ELSE /\ inflight' = [inflight EXCEPT ![s].stage = "insert"]
          /\ UNCHANGED resp
  /\ UNCHANGED <<rooms, userWatchlist, trivias, answers, clock, sockets,
                 channels, delivered>>

\* Mutant: the collection has no unique index.
DuplicateAnswer_NoIndex(u, triviaId) == FALSE

\* triviaAnswerSchema.index({ userId: 1, triviaId: 1 }, { unique: true }): an
\* insert of a second document with the same pair is refused (E11000).
DuplicateAnswer(u, triviaId) == ExistingAnswer(u, triviaId) # {}

\* const isCorrect = trivia.correctAnswer === answer;
\* await triviaAnswer.save()
InsertAnswer(s) ==
  LET req == inflight[s]
      isCorrect == req.doc.correctAnswer = req.body
  IN
  /\ req # Idle /\ req.op = "answer" /\ req.stage = "insert"
  /\ IF DuplicateAnswer(req.user, req.id)
     THEN /\ resp' = Reply("answer", req.user, None, 500, "duplicate", None)
          /\ inflight' = [inflight EXCEPT ![s] = Idle]
          /\ UNCHANGED answers
     ELSE /\ answers' = answers \cup
               {[userId |-> req.user, triviaId |-> req.id, answer |-> req.body,
                 isCorrect |-> isCorrect]}
          /\ IF isCorrect
             THEN /\ inflight' = [inflight EXCEPT ![s].stage = "points"]
                  /\ UNCHANGED resp
             ELSE /\ inflight' = [inflight EXCEPT ![s] = Idle]
                  /\ resp' = Reply("answer", req.user, None, 200, "ok",
                                   [isCorrect |-> FALSE,
                                    points |-> req.doc.points])
  /\ UNCHANGED <<rooms, userWatchlist, trivias, clock, sockets, channels,
                 delivered>>

\* trivia.points = (trivia.points || 0) + 1; await trivia.save(): the value
\* computed from the trivia that was read is set, whatever is stored.
SavePoints(s) ==
  LET req == inflight[s] IN
  /\ req # Idle /\ req.op = "answer" /\ req.stage = "points"
  /\ trivias' = [trivias EXCEPT ![req.id].points = req.doc.points + 1]
  /\ inflight' = [inflight EXCEPT ![s] = Idle]
  /\ resp' = Reply("answer", req.user, None, 200, "ok",
                   [isCorrect |-> TRUE, points |-> req.doc.points + 1])
  /\ UNCHANGED <<rooms, userWatchlist, answers, clock, sockets, channels,
                 delivered>>

(***************************************************************************)
(* Initial state: empty collections; every user of Users is registered.    *)
(***************************************************************************)
Init ==
  /\ rooms = <<>>
  /\ userWatchlist = [u \in Users |-> <<>>]
  /\ trivias = <<>>
  /\ answers = {}
  /\ resp = Reply("none", None, None, 0, "none", None)
  /\ clock = 0
  /\ sockets = {}
  /\ channels = [r \in RoomIds |-> {}]
  /\ delivered = [event |-> "none", room |-> None, sender |-> None, to |-> {}]
  /\ inflight = [s \in Slots |-> Idle]

(***************************************************************************)
(* The relay (server.js): io.on('connection') and the handlers of a socket. *)
(* The roomId of a socket event is whatever the client sends; it is not    *)
(* looked up in the Room collection.                                       *)
(***************************************************************************)
RelayAll == {"poll-update", "new-trivia"}
RelayOthers == {"video-sync", "user-synced"}

\* What the server did on the last socket event.
Relayed(event, roomId, c, to) ==
  [event |-> event, room |-> roomId, sender |-> c, to |-> to]

\* io.to(roomId): every open connection joined to roomId.
IoTo(roomId) == channels[roomId]

\* Mutant: the sender gets its own event back.
SocketTo_Echo(c, roomId) == channels[roomId]

\* socket.to(roomId): every open connection joined to roomId but the socket
\* itself.
SocketTo(c, roomId) == channels[roomId] \ {c}

\* io.on('connection')
Connect(c) ==
  /\ c \notin sockets
  /\ sockets' = sockets \cup {c}
  /\ delivered' = Relayed("connection", None, c, {})
  /\ UNCHANGED <<inflight, rooms, userWatchlist, trivias, answers, resp, clock, channels>>

\* socket.on('join-room'): socket.join(roomId)
SocketJoin(c, roomId) ==
  /\ c \in sockets
  /\ channels' = [channels EXCEPT ![roomId] = @ \cup {c}]
  /\ delivered' = Relayed("join-room", roomId, c, {})
  /\ UNCHANGED <<inflight, rooms, userWatchlist, trivias, answers, resp, clock, sockets>>

\* socket.on('leave-room'): socket.leave(roomId)
SocketLeave(c, roomId) ==
  /\ c \in sockets
  /\ channels' = [channels EXCEPT ![roomId] = @ \ {c}]
  /\ delivered' = Relayed("leave-room", roomId, c, {})
  /\ UNCHANGED <<inflight, rooms, userWatchlist, trivias, answers, resp, clock, sockets>>

\* socket.on('poll-update') and socket.on('new-trivia'): io.to(roomId).emit
EmitToRoom(c, event, roomId) ==
  /\ c \in sockets
  /\ event \in RelayAll
  /\ delivered' = Relayed(event, roomId, c, IoTo(roomId))
  /\ UNCHANGED <<inflight, rooms, userWatchlist, trivias, answers, resp, clock, sockets,
                 channels>>

\* socket.on('video-sync') and socket.on('user-synced'):
\* socket.to(roomId).emit
EmitToOthers(c, event, roomId) ==
  /\ c \in sockets
  /\ event \in RelayOthers
  /\ delivered' = Relayed(event, roomId, c, SocketTo(c, roomId))
  /\ UNCHANGED <<inflight, rooms, userWatchlist, trivias, answers, resp, clock, sockets,
                 channels>>

\* socket.on('disconnect'): the closed socket is out of every room.
Disconnect(c) ==
  /\ c \in sockets
  /\ sockets' = sockets \ {c}
  /\ channels' = [r \in RoomIds |-> channels[r] \ {c}]
  /\ delivered' = Relayed("disconnect", None, c, {})
  /\ UNCHANGED <<inflight, rooms, userWatchlist, trivias, answers, resp, clock>>

\* The rooms the socket events name: two, so that a relay to one room passes
\* by the connections joined to the other.
RelayRooms == {1, 2}

NextRelay ==
  \/ \E c \in Connections : Connect(c)
  \/ \E c \in Connections, roomId \in RelayRooms : SocketJoin(c, roomId)
  \/ \E c \in Connections, roomId \in RelayRooms : SocketLeave(c, roomId)
  \/ \E c \in Connections, event \in RelayAll, roomId \in RelayRooms :
       EmitToRoom(c, event, roomId)
  \/ \E c \in Connections, event \in RelayOthers, roomId \in RelayRooms :
       EmitToOthers(c, event, roomId)
  \/ \E c \in Connections : Disconnect(c)

SpecRelay == Init /\ [][NextRelay]_vars

(***************************************************************************)
(* The room ids a request can carry: the id of every stored room and one   *)
(* id that names no room.                                                  *)
(***************************************************************************)
Addressable == DOMAIN rooms \cup {Len(rooms) + 1}

\* The users of the specifications that are not about capacity: a creator
\* and two users who come to the room.
RoomUsers == {1, 2, 3}

(***************************************************************************)
(* Room directory: several rooms, requests one at a time.                  *)
(***************************************************************************)
\* The users of the directory: each creates rooms and joins the other's.
Hosts == {1, 2}

Next ==
  \/ \E u \in Hosts, name \in Names, isPrivate \in BOOLEAN, code \in Codes :
       CreateRoom(u, name, NoMovie, isPrivate, code)
  \/ \E u \in Hosts, roomId \in {None} \cup Addressable, inviteCode \in {None} \cup Codes :
       JoinRoom(u, roomId, inviteCode)
  \/ \E u \in Hosts, roomId \in Addressable : GetRoom(u, roomId)
  \/ \E u \in Hosts, roomId \in Addressable : DeleteRoom(u, roomId)

Spec == Init /\ [][Next]_vars

(***************************************************************************)
(* Membership of one room, with bans.  Users are interchangeable, so user  *)
(* 1 creates the room.                                                     *)
(***************************************************************************)
\* The users the moderation path bans: the creator and one other user.
Bannable == {1, 2}

NextMembership ==
  \/ \E isPrivate \in BOOLEAN :
       rooms = <<>> /\ CreateRoom(1, 1, NoMovie, isPrivate, 1)
  \/ \E u \in Users, roomId \in {None} \cup Addressable, inviteCode \in {None} \cup Codes :
       JoinRoom(u, roomId, inviteCode)
  \/ \E u \in Users, roomId \in Addressable : GetRoom(u, roomId)
  \/ \E u \in Users, roomId \in Addressable : DeleteRoom(u, roomId)
  \/ \E u \in Bannable, roomId \in DOMAIN rooms : BanUser(u, roomId)

SpecMembership == Init /\ [][NextMembership]_vars

(***************************************************************************)
(* One room and every route that writes it: user 1 creates the room,       *)
(* changes its settings, votes and selects; the others join by invite code *)
(* or by viewing; each of them reports playback (one report) and adds to   *)
(* the watchlist (one summary).                                            *)
(***************************************************************************)
NextRoom ==
  \/ \E isPrivate \in BOOLEAN :
       rooms = <<>> /\ CreateRoom(1, 1, NoMovie, isPrivate, 1)
  \/ \E u \in RoomUsers, inviteCode \in Codes : JoinRoom(u, None, inviteCode)
  \/ \E u \in RoomUsers, roomId \in Addressable : GetRoom(u, roomId)
  \/ \E u \in RoomUsers, roomId \in Addressable : DeleteRoom(u, roomId)
  \/ \E roomId \in Addressable, body \in SettingsBodies :
       UpdateSettings(1, roomId, body)
  \/ \E u \in RoomUsers, roomId \in Addressable :
       /\ roomId \in DOMAIN rooms => rooms[roomId].playbackEvents = <<>>
       /\ UpdateMovie(u, roomId, [currentTime |-> 7, isPlaying |-> TRUE])
  \/ \E u \in RoomUsers, roomId \in Addressable :
       /\ roomId \in DOMAIN rooms => rooms[roomId].watchlist = <<>>
       /\ AddToWatchlist(u, roomId, [id |-> "m1", title |-> "t1",
                                     thumbnail |-> "th1", year |-> "2020"])
  \/ \E roomId \in Addressable : VoteRoom(1, roomId, "m1")
  \/ \E roomId \in Addressable : SelectFromWatchlist(1, roomId, "m1")

SpecRoom == Init /\ [][NextRoom]_vars

(***************************************************************************)
(* One room and the requests that are turned away: every route that       *)
(* writes the room is called by its creator, user 1, and by user 3, who    *)
(* may be outside it; user 2 joins or views it and is banned.              *)
(***************************************************************************)
NextRejection ==
  \/ \E isPrivate \in BOOLEAN :
       rooms = <<>> /\ CreateRoom(1, 1, NoMovie, isPrivate, 1)
  \/ \E u \in RoomUsers :
       /\ \E i \in DOMAIN rooms : rooms[i].isActive
       /\ CreateRoom(u, 1, NoMovie, FALSE, 2)
  \/ \E u \in RoomUsers, roomId \in {None} \cup Addressable,
        inviteCode \in {None} \cup Codes :
       (roomId # None => inviteCode # None) /\ JoinRoom(u, roomId, inviteCode)
  \/ \E u \in RoomUsers, roomId \in Addressable : GetRoom(u, roomId)
  \/ \E u \in {1, 3}, roomId \in Addressable : DeleteRoom(u, roomId)
  \/ \E roomId \in DOMAIN rooms : BanUser(2, roomId)
  \/ \E u \in {1, 3}, roomId \in Addressable :
       UpdateSettings(u, roomId, [videoLink |-> "link2"])
  \/ \E u \in {1, 3}, roomId \in Addressable :
       /\ roomId \in DOMAIN rooms => rooms[roomId].playbackEvents = <<>>
       /\ UpdateMovie(u, roomId, [currentTime |-> 7, isPlaying |-> TRUE])
  \/ \E u \in {1, 3}, roomId \in Addressable :
       /\ roomId \in DOMAIN rooms => rooms[roomId].watchlist = <<>>
       /\ AddToWatchlist(u, roomId, [id |-> "m1", title |-> "t1",
                                     thumbnail |-> "th1", year |-> "2020"])
  \/ \E u \in {1, 3}, roomId \in Addressable :
       VoteRoom(u, roomId, "m1")
  \/ \E u \in {1, 3}, roomId \in Addressable :
       SelectFromWatchlist(u, roomId, "m1")

SpecRejection == Init /\ [][NextRejection]_vars

(***************************************************************************)
(* Playback synchroniser of one public room: user 1 creates it, user 2     *)
(* views it, user 3 stays outside, and each of them reports.               *)
(***************************************************************************)
NextPlayback ==
  \/ \E movie \in CreateMovies :
       rooms = <<>> /\ CreateRoom(1, 1, movie, FALSE, 1)
  \/ \E roomId \in Addressable : GetRoom(2, roomId)
  \/ \E u \in RoomUsers, roomId \in Addressable, body \in Reports :
       UpdateMovie(u, roomId, body)

SpecPlayback == Init /\ [][NextPlayback]_vars

(***************************************************************************)
(* The movie of one room over time: user 1 creates the room, sends the     *)
(* first report, changes the video link, and adds to and selects from the  *)
(* watchlist; user 2 views the room and reports; and the time new Date()   *)
(* / Date.now returns moves on.                                            *)
(***************************************************************************)
\* Time passes between two requests.
Tick ==
  /\ clock < MaxClock
  /\ clock' = clock + 1
  /\ UNCHANGED <<inflight, rooms, userWatchlist, trivias, answers, resp, sockets,
                 channels, delivered>>

\* The report of the user who views the room.
ViewerReport == [currentTime |-> 0, isPlaying |-> FALSE]

\* Reports with and without the optional fields title and timestamp.
ClockReports ==
  {ViewerReport,
   [currentTime |-> 7, isPlaying |-> TRUE],
   [currentTime |-> 7, isPlaying |-> TRUE, title |-> "t2"],
   [currentTime |-> 0, isPlaying |-> FALSE, timestamp |-> 1]}

NextClock ==
  \/ Tick
  \/ \E movie \in CreateMovies :
       rooms = <<>> /\ CreateRoom(1, 1, movie, FALSE, 1)
  \/ \E roomId \in Addressable : GetRoom(2, roomId)
  \/ \E roomId \in Addressable, body \in ClockReports :
       /\ roomId \in DOMAIN rooms => rooms[roomId].playbackEvents = <<>>
       /\ UpdateMovie(1, roomId, body)
  \/ \E roomId \in Addressable :
       UpdateMovie(2, roomId, ViewerReport)
  \/ \E roomId \in Addressable :
       UpdateSettings(1, roomId, [videoLink |-> "link2"])
  \/ \E roomId \in Addressable, movie \in Summaries :
       /\ movie.id = "m1" /\ movie.title = "t1"
       /\ roomId \in DOMAIN rooms => rooms[roomId].watchlist = <<>>
       /\ AddToWatchlist(1, roomId, movie)
  \/ \E roomId \in Addressable : SelectFromWatchlist(1, roomId, "m1")

SpecClock == Init /\ [][NextClock]_vars

(***************************************************************************)
(* Overlapping playback reports on one room: user 1 creates the room (with *)
(* or without a movie), user 2 views it, and the two report, each with one *)
(* report in flight at a time.                                             *)
(***************************************************************************)
RaceReports ==
  {[currentTime |-> 7, isPlaying |-> TRUE, title |-> "t2", url |-> "link2"],
   [currentTime |-> 0, isPlaying |-> FALSE, thumbnail |-> "th2"]}

NextRaceReport ==
  \/ \E movie \in CreateMovies :
       rooms = <<>> /\ CreateRoom(1, 1, movie, FALSE, 1)
  \/ \E roomId \in Addressable : Quiet /\ GetRoom(2, roomId)
  \/ \E s \in Slots, u \in Hosts, roomId \in Addressable, body \in RaceReports :
       s = u /\ BeginUpdateMovie(s, u, roomId, body)
  \/ \E s \in Slots : EndUpdateMovie(s)

SpecRaceReport == Init /\ [][NextRaceReport]_vars

(***************************************************************************)
(* Overlapping joins and views of one room: user 1 creates it, public or   *)
(* private, user 2 enters it, may be banned, and users 3 and 4 join or     *)
(* view it with one request in flight each.                                *)
(***************************************************************************)
Newcomers == {3, 4}

NextRaceJoin ==
  \/ \E isPrivate \in BOOLEAN :
       rooms = <<>> /\ CreateRoom(1, 1, NoMovie, isPrivate, 1)
  \/ \E roomId \in Addressable, code \in Codes :
       Quiet /\ JoinRoom(2, roomId, code)
  \/ \E roomId \in Addressable : Quiet /\ GetRoom(2, roomId)
  \/ \E roomId \in Addressable : Quiet /\ BanUser(2, roomId)
  \/ \E s \in Slots, u \in Newcomers, roomId \in Addressable \cup {None},
        code \in Codes :
       s = u - 2 /\ BeginJoinRoom(s, u, roomId, code)
  \/ \E s \in Slots, u \in Newcomers, roomId \in Addressable :
       s = u - 2 /\ BeginGetRoom(s, u, roomId)
  \/ \E s \in Slots : EndAdmission(s)

SpecRaceJoin == Init /\ [][NextRaceJoin]_vars

(***************************************************************************)
(* Watchlist of one public room: user 1 creates it, user 2 views it, and   *)
(* user 3 stays outside, and each of them adds, votes and selects.         *)
(***************************************************************************)
NextWatchlist ==
  \/ rooms = <<>> /\ CreateRoom(1, 1, NoMovie, FALSE, 1)
  \/ \E roomId \in Addressable : GetRoom(2, roomId)
  \/ \E u \in RoomUsers, roomId \in Addressable, movie \in Summaries :
       AddToWatchlist(u, roomId, movie)
  \/ \E u \in RoomUsers, roomId \in Addressable, movieId \in MovieIds :
       VoteRoom(u, roomId, movieId)
  \/ \E u \in RoomUsers, roomId \in Addressable, movieId \in MovieIds :
       SelectFromWatchlist(u, roomId, movieId)

SpecWatchlist == Init /\ [][NextWatchlist]_vars

(***************************************************************************)
(* Selection from a full watchlist: user 1 creates a room, adds summaries, *)
(* the same id more than once if it so happens, and selects once the list  *)
(* is full.                                                                *)
(***************************************************************************)
NextSelect ==
  \/ rooms = <<>> /\ CreateRoom(1, 1, NoMovie, FALSE, 1)
  \/ \E roomId \in Addressable, movie \in Summaries :
       AddToWatchlist(1, roomId, movie)
  \/ \E roomId \in DOMAIN rooms, movieId \in MovieIds :
       /\ Len(rooms[roomId].watchlist) = MaxWatchlist
       /\ SelectFromWatchlist(1, roomId, movieId)

SpecSelect == Init /\ [][NextSelect]_vars

(***************************************************************************)
(* The users' own watchlists.                                              *)
(***************************************************************************)
\* The two account holders whose lists are exercised (req.user.userId).
WatchlistUsers == {1, 2}

NextUserWatchlist ==
  \/ \E u \in WatchlistUsers, movie \in Summaries : AddUserWatchlist(u, movie)
  \/ \E u \in WatchlistUsers, movieId \in MovieIds : RemoveUserWatchlist(u, movieId)
  \/ \E u \in WatchlistUsers, movieId \in MovieIds : VoteUser(u, movieId)
  \/ \E u \in WatchlistUsers, movieId \in MovieIds : SelectUser(u, movieId)

SpecUserWatchlist == Init /\ [][NextUserWatchlist]_vars

(***************************************************************************)
(* Overlapping votes of user 1 on the user's own watchlist, next to a room *)
(* of user 1 with a watchlist; adds, removals and the room's requests come *)
(* while no vote is in flight.                                             *)
(***************************************************************************)
NextRaceVote ==
  \/ \E movie \in Summaries :
       Quiet /\ movie.title = "t1" /\ AddUserWatchlist(1, movie)
  \/ \E movieId \in MovieIds : Quiet /\ RemoveUserWatchlist(1, movieId)
  \/ \E s \in Slots, movieId \in MovieIds : BeginVoteUser(s, 1, movieId)
  \/ \E s \in Slots : EndVoteUser(s)
  \/ Quiet /\ rooms = <<>> /\ CreateRoom(1, 1, NoMovie, FALSE, 1)
  \/ \E roomId \in Addressable, movie \in Summaries :
       /\ Quiet /\ movie.id = "m1" /\ movie.title = "t1"
       /\ roomId \in DOMAIN rooms => rooms[roomId].watchlist = <<>>
       /\ AddToWatchlist(1, roomId, movie)
  \/ \E roomId \in Addressable : Quiet /\ VoteRoom(1, roomId, "m1")

SpecRaceVote == Init /\ [][NextRaceVote]_vars

(***************************************************************************)
(* Trivia.                                                                 *)
(***************************************************************************)
NextTrivia ==
  \/ \E u \in Users, n \in {3, 4}, correct \in Answers \cup {""} :
       CreateTrivia(u, n, correct)
  \/ \E u \in Users, roomId \in RoomIds, correct \in Answers \cup {""} :
       CreateRoomTrivia(u, roomId, correct)
  \/ \E u \in Users, triviaId \in 1..MaxTrivia, answer \in Answers \cup {""} :
       AnswerTrivia(u, triviaId, answer)
  \/ \E u \in Users, roomId \in RoomIds, triviaId \in 1..MaxTrivia,
        answer \in Answers \cup {""} :
       AnswerRoomTrivia(u, roomId, triviaId, answer)

SpecTrivia == Init /\ [][NextTrivia]_vars

(***************************************************************************)
(* Overlapping answers to the trivia bank: user 1 creates a question and   *)
(* users 1 and 2 answer; user 1's requests overlap one another as well as  *)
(* user 2's, which come one at a time.                                     *)
(***************************************************************************)
NextRaceAnswer ==
  \/ \E correct \in Answers : trivias = <<>> /\ CreateTrivia(1, 4, correct)
  \/ \E s \in Slots, u \in Hosts, triviaId \in 1..MaxTrivia,
        answer \in Answers \cup {""} :
       (u = 2 => s = 2) /\ BeginAnswerTrivia(s, u, triviaId, answer)
  \/ \E s \in Slots : LookupAnswer(s)
  \/ \E s \in Slots : InsertAnswer(s)
  \/ \E s \in Slots : SavePoints(s)

SpecRaceAnswer == Init /\ [][NextRaceAnswer]_vars

(***************************************************************************)
(* Properties.                                                             *)
(***************************************************************************)
Last(s) == s[Len(s)]

\* s is an initial segment of t.
IsPrefix(s, t) == Len(s) <= Len(t) /\ SubSeq(t, 1, Len(s)) = s

\* The last request was a join or a get addressed to an existing room.
MembershipOp == resp.op \in {"join", "get"} /\ resp.room \in DOMAIN rooms

BanExclusive(room) == Range(room.participants) \cap room.bannedUsers = {}

\* C1 as stated: after any join or get request completes, whatever its
\* outcome, no user of the room is both a participant and banned.
C1_AfterAnyMembershipOp ==
  MembershipOp => BanExclusive(rooms[resp.room])

\* C1, amended: after a join or get request that succeeds (200), no user of
\* the room is both a participant and banned, even when a banned user was a
\* participant when the request arrived.
C1_BanExclusivity ==
  MembershipOp /\ resp.status = 200 => BanExclusive(rooms[resp.room])

\* A successful join or get whose purge removed a banned participant.
C1_Witness ==
  /\ MembershipOp /\ resp.status = 200
  /\ resp.arg.purged > 0
  /\ rooms[resp.room].bannedUsers # {}

\* C2 as stated: a join or get by a user who is not yet a participant,
\* issued while |participants| equals the limit, fails with 403 and adds
\* nobody.  (Rooms that were deleted are left aside: a join finds none.)
C2_FullRoomRejects ==
  [][(/\ resp'.op \in {"join", "get"}
      /\ resp'.room \in DOMAIN rooms
      /\ rooms[resp'.room].isActive
      /\ ~Includes(rooms[resp'.room].participants, resp'.user)
      /\ Len(rooms[resp'.room].participants) = ParticipantLimit(rooms[resp'.room]))
     => (resp'.status = 403 /\ rooms' = rooms)]_vars

\* C2, amended: a join or get by a user who is not yet a participant, issued
\* on an active room while the number of participants that are not banned
\* equals the limit, fails with 403 and adds nobody; and no admission leaves
\* |participants| above the limit.
C2_Capacity ==
  [][/\ (/\ resp'.op \in {"join", "get"}
         /\ resp'.room \in DOMAIN rooms
         /\ rooms[resp'.room].isActive
         /\ ~Includes(rooms[resp'.room].participants, resp'.user)
         /\ Len(PurgeBanned(rooms[resp'.room])) = ParticipantLimit(rooms[resp'.room]))
        => (resp'.status = 403 /\ rooms' = rooms)
     /\ (/\ resp'.op \in {"join", "get"}
         /\ resp'.status = 200
         /\ resp'.arg.admitted)
        => Len(rooms'[resp'.room].participants)
             <= ParticipantLimit(rooms'[resp'.room])]_vars

\* A request by a non-participant was turned away from a full room.
C2_Witness ==
  /\ MembershipOp /\ resp.status = 403 /\ resp.reason = "capacity"
  /\ ~Includes(rooms[resp.room].participants, resp.user)
  /\ Len(PurgeBanned(rooms[resp.room])) = ParticipantLimit(rooms[resp.room])

\* C10 as stated: a get by u adds u to participants exactly when u is not
\* banned, not yet a participant, the room is not private and |participants|
\* is below the limit; it is 403 when u is banned, when the room is private
\* and u is no participant, or when |participants| has reached the limit and
\* u is no participant; it is 404 when the room does not exist.
C10_JoinOnViewByCount ==
  [][resp'.op = "get" =>
       IF resp'.room \notin DOMAIN rooms
       THEN resp'.status = 404 /\ rooms' = rooms
       ELSE LET room == rooms[resp'.room]
                u == resp'.user
                banned == u \in room.bannedUsers
                member == Includes(room.participants, u)
                below == Len(room.participants) < ParticipantLimit(room)
                added == ~member /\ Includes(rooms'[resp'.room].participants, u)
            IN  /\ added <=> (~banned /\ ~member /\ ~room.isPrivate /\ below)
                /\ (banned \/ (room.isPrivate /\ ~member) \/ (~below /\ ~member))
                     => resp'.status = 403]_vars

\* C10, amended: as C10, with the capacity counted over the participants
\* that are not banned (the purge runs before the capacity check).
C10_JoinOnView ==
  [][resp'.op = "get" =>
       IF resp'.room \notin DOMAIN rooms
       THEN resp'.status = 404 /\ rooms' = rooms
       ELSE LET room == rooms[resp'.room]
                u == resp'.user
                banned == u \in room.bannedUsers
                member == Includes(room.participants, u)
                below == Len(PurgeBanned(room)) < ParticipantLimit(room)
                added == ~member /\ Includes(rooms'[resp'.room].participants, u)
            IN  /\ added <=> (~banned /\ ~member /\ ~room.isPrivate /\ below)
                /\ (banned \/ (room.isPrivate /\ ~member) \/ (~below /\ ~member))
                     => resp'.status = 403]_vars

\* A get admitted its requester after the purge had made room for them.
C10_Witness ==
  /\ resp.op = "get" /\ resp.status = 200
  /\ resp.arg.admitted /\ resp.arg.purged > 0
  /\ Last(rooms[resp.room].participants) = resp.user
  /\ Len(rooms[resp.room].participants) = ParticipantLimit(rooms[resp.room])

\* C3: createRoom with a name that an active room holds fails with 400 and
\* creates nothing; createRoom with the name of a room that was soft-deleted
\* (and that no active room holds) succeeds and yields a new active room.
C3_NameScopedToActive ==
  [][resp'.op = "create" =>
       LET name == resp'.arg
           active == \E i \in DOMAIN rooms : rooms[i].name = name /\ rooms[i].isActive
           deleted == \E i \in DOMAIN rooms : rooms[i].name = name /\ ~rooms[i].isActive
       IN  /\ active => (resp'.status = 400 /\ rooms' = rooms)
           /\ (~active /\ deleted) =>
                /\ resp'.status = 201
                /\ Len(rooms') = Len(rooms) + 1
                /\ Last(rooms').name = name
                /\ Last(rooms').isActive]_vars

\* C4: in every reachable state, every room is private if and only if its
\* inviteCode is set.
C4_InviteCodeDuality ==
  \A i \in DOMAIN rooms : rooms[i].isPrivate <=> rooms[i].inviteCode # None

\* A private room, invite code in place, after a later mutation: its creator
\* has just promoted a watchlist entry.
C4_Witness ==
  /\ resp.op = "select" /\ resp.status = 200
  /\ rooms[resp.room].isPrivate
  /\ rooms[resp.room].inviteCode # None
  /\ Len(rooms[resp.room].participants) > 1

\* The event type the claim gives for stored movie P and report R.
ClaimedEventType(P, R) ==
  IF R.isPlaying # P.isPlaying THEN (IF R.isPlaying THEN "play" ELSE "pause")
  ELSE IF Abs(P.currentTime - R.currentTime) > 5 THEN "seek"
  ELSE IF "timestamp" \in DOMAIN R THEN "sync"
  ELSE "seek"

\* C5: the event an accepted report logs has the type computed from the
\* movie stored before the report is applied: play or pause when isPlaying
\* changes, else seek when the times differ by more than 5, else sync when
\* the report carries a timestamp field, else seek.
C5_Classification ==
  [][(resp'.op = "movie" /\ resp'.status = 200) =>
       LET u == resp'.user
           r == resp'.room
       IN  \A body \in Reports :
             (UpdateMovie(u, r, body) /\ rooms[r].movie # NoMovie)
             => Last(rooms'[r].playbackEvents).type
                  = ClaimedEventType(rooms[r].movie, body)]_vars

\* C6: an accepted report appends exactly one entry to syncEvents, with
\* difference = stored currentTime - reported currentTime and userId = the
\* requester, if and only if the two times differ by more than 2; otherwise
\* syncEvents is unchanged.
C6_DriftSampling ==
  [][(resp'.op = "movie" /\ resp'.status = 200) =>
       LET u == resp'.user
           r == resp'.room
           P == rooms[r].movie
       IN  \A body \in Reports :
             UpdateMovie(u, r, body) =>
               IF P # NoMovie /\ Abs(P.currentTime - body.currentTime) > 2
               THEN /\ Len(rooms'[r].syncEvents) = Len(rooms[r].syncEvents) + 1
                    /\ IsPrefix(rooms[r].syncEvents, rooms'[r].syncEvents)
                    /\ Last(rooms'[r].syncEvents).userId = u
                    /\ Last(rooms'[r].syncEvents).difference
                         = P.currentTime - body.currentTime
               ELSE rooms'[r].syncEvents = rooms[r].syncEvents]_vars

\* The second report of a room was classified sync and also logged a drift
\* sample of 5 seconds (a difference only the second report can have).
C6_Witness ==
  /\ resp.op = "movie" /\ resp.status = 200
  /\ Len(rooms[resp.room].playbackEvents) = 2
  /\ Last(rooms[resp.room].playbackEvents).type = "sync"
  /\ Len(rooms[resp.room].syncEvents) > 0
  /\ Last(rooms[resp.room].syncEvents).difference \in {5, -5}
  /\ Last(rooms[resp.room].syncEvents).userId = resp.user

\* C7: select by the room's creator, for a movie id the watchlist holds,
\* sets in one step movie.title to the title of the first such entry X,
\* currentTime to 0 and isPlaying to TRUE, and leaves X out of the
\* watchlist; select by anyone else is 403 and changes nothing.
C7_SelectPromotesAndRemoves ==
  [][(resp'.op = "select" /\ resp'.room \in DOMAIN rooms) =>
         LET u == resp'.user
             r == resp'.room
             movieId == resp'.arg
             list == rooms[r].watchlist
         IN
         IF rooms[r].creator # u
         THEN resp'.status = 403 /\ rooms' = rooms
         ELSE FindItem(list, movieId) # None =>
                LET X == list[FindItem(list, movieId)] IN
                /\ resp'.status = 200
                /\ rooms'[r].movie.title = X.movie.title
                /\ rooms'[r].movie.currentTime = 0
                /\ rooms'[r].movie.isPlaying = TRUE
                /\ \A i \in DOMAIN rooms'[r].watchlist :
                     rooms'[r].watchlist[i] # X]_vars

\* The creator promoted an entry, and another entry stayed on the watchlist.
C7_Witness ==
  /\ resp.op = "select" /\ resp.status = 200
  /\ rooms[resp.room].creator = resp.user
  /\ rooms[resp.room].movie # NoMovie
  /\ rooms[resp.room].movie.isPlaying
  /\ rooms[resp.room].watchlist # <<>>

\* item.votes holds u.
VotedFor(item, u) == "votes" \in DOMAIN item /\ Includes(item.votes, u)

\* C8: a vote call by a participant on an entry of the room's watchlist
\* flips the caller's membership in the entry's votes.
C8_VoteFlips ==
  [][(/\ resp'.op = "vote"
      /\ resp'.room \in DOMAIN rooms
      /\ Includes(rooms[resp'.room].participants, resp'.user)
      /\ FindItem(rooms[resp'.room].watchlist, resp'.arg) # None)
     => LET u == resp'.user
            r == resp'.room
            i == FindItem(rooms[r].watchlist, resp'.arg)
        IN  /\ resp'.status = 200
            /\ VotedFor(rooms'[r].watchlist[i], u)
                 # VotedFor(rooms[r].watchlist[i], u)]_vars

\* C9: when a user who has a stored answer to a trivia question submits a
\* different answer to it, through either answer route, the response carries
\* the stored isCorrect, and the stored answers and the points stay as they
\* were.
C9_UniqueAnswer ==
  [][(resp'.op \in {"answer", "roomAnswer"} /\ resp'.status = 200) =>
       LET u == resp'.user IN
       \A t \in 1..MaxTrivia, answer \in Answers :
         \A a \in ExistingAnswer(u, t) :
           (/\ \/ AnswerTrivia(u, t, answer)
               \/ AnswerRoomTrivia(u, resp'.room, t, answer)
            /\ a.answer # answer)
           => /\ resp'.arg.isCorrect = a.isCorrect
              /\ answers' = answers
              /\ trivias' = trivias]_vars

\* C11: a join with a roomId of an active room admits the creator (if not
\* banned) without any code, and rejects with 403 any other user whose
\* inviteCode is not the room's; a join with only an inviteCode addresses
\* the active room that holds the code, or is 404 when there is none; a join
\* with neither is 400; a requester banned from the room addressed is 403 on
\* both paths.
C11_JoinGating ==
  [][resp'.op = "join" =>
       LET u == resp'.user IN
       \A roomId \in {None} \cup DOMAIN rooms, inviteCode \in {None} \cup Codes :
         JoinRoom(u, roomId, inviteCode) =>
           IF roomId # None
           THEN rooms[roomId].isActive =>
                  LET room == rooms[roomId] IN
                  /\ (room.creator = u /\ u \notin room.bannedUsers)
                       => (resp'.status = 200 /\ Includes(rooms'[roomId].participants, u))
                  /\ (room.creator # u /\ inviteCode # room.inviteCode)
                       => (resp'.status = 403 /\ rooms' = rooms)
                  /\ (room.creator # u /\ inviteCode = None)
                       => (resp'.status = 403 /\ rooms' = rooms)
                  /\ u \in room.bannedUsers
                       => (resp'.status = 403 /\ rooms' = rooms)
           ELSE IF inviteCode = None
           THEN resp'.status = 400 /\ rooms' = rooms
           ELSE LET holders == {i \in DOMAIN rooms :
                                  rooms[i].inviteCode = inviteCode /\ rooms[i].isActive}
                IN  IF holders = {}
                    THEN resp'.status = 404 /\ rooms' = rooms
                    ELSE /\ resp'.room \in holders
                         /\ resp'.status \in {200, 403}
                         /\ u \in rooms[resp'.room].bannedUsers
                              => (resp'.status = 403 /\ rooms' = rooms)
                         /\ resp'.status = 200
                              => Includes(rooms'[resp'.room].participants, u)]_vars

\* A user other than the creator was turned away from a private room for
\* want of the right invite code.
C11_Witness ==
  /\ resp.op = "join" /\ resp.status = 403 /\ resp.reason = "invite"
  /\ resp.room \in DOMAIN rooms
  /\ rooms[resp.room].isPrivate
  /\ rooms[resp.room].creator # resp.user
  /\ ~Includes(rooms[resp.room].participants, resp.user)

\* The requester of the last request is a participant of the room addressed.
ByParticipant ==
  /\ resp'.room \in DOMAIN rooms
  /\ Includes(rooms[resp'.room].participants, resp'.user)

\* C12 as stated: a successful join or get by a user who already is a
\* participant leaves participants as it was; and no join or get by a
\* participant is turned away for capacity.
C12_ParticipantsUnchanged ==
  [][(resp'.op \in {"join", "get"} /\ ByParticipant) =>
       /\ resp'.status = 200
            => rooms'[resp'.room].participants = rooms[resp'.room].participants
       /\ resp'.reason # "capacity"]_vars

\* C12, amended: a successful join or get by a user who already is a
\* participant leaves the participants that are not banned as they were, in
\* the same order and with the requester in it once; and no join or get by a
\* participant is turned away for capacity.
C12_JoinIdempotence ==
  [][(resp'.op \in {"join", "get"} /\ ByParticipant) =>
       /\ resp'.status = 200
            => /\ rooms'[resp'.room].participants = PurgeBanned(rooms[resp'.room])
               /\ Cardinality({i \in DOMAIN rooms'[resp'.room].participants :
                     rooms'[resp'.room].participants[i] = resp'.user}) = 1
       /\ resp'.reason # "capacity"]_vars

\* A participant of a full room viewed it again and was let in.
C12_Witness ==
  /\ resp.op \in {"join", "get"} /\ resp.status = 200
  /\ ~resp.arg.admitted
  /\ Len(rooms[resp.room].participants) = ParticipantLimit(rooms[resp.room])

\* C13: a delete by the creator sets isActive to FALSE and changes no other
\* field; by anyone else it is 403 and for an absent room 404, with nothing
\* changed; no request removes a room record, and a room that is inactive
\* stays inactive.
C13_SoftDelete ==
  [][/\ resp'.op = "delete" =>
          IF resp'.room \notin DOMAIN rooms
          THEN resp'.status = 404 /\ rooms' = rooms
          ELSE IF rooms[resp'.room].creator # resp'.user
          THEN resp'.status = 403 /\ rooms' = rooms
          ELSE /\ resp'.status = 200
               /\ rooms' = [rooms EXCEPT ![resp'.room] =
                              [rooms[resp'.room] EXCEPT !.isActive = FALSE]]
     /\ Len(rooms') >= Len(rooms)
     /\ \A i \in DOMAIN rooms :
          /\ rooms'[i].name = rooms[i].name
          /\ ~rooms[i].isActive => ~rooms'[i].isActive]_vars

\* The creator deleted a room that others had joined; its record remains.
C13_Witness ==
  /\ resp.op = "delete" /\ resp.status = 200
  /\ ~rooms[resp.room].isActive
  /\ Len(rooms[resp.room].participants) > 1

\* C14: a playback report by a user who is not in participants is 403 and
\* leaves the room (movie, playbackEvents, syncEvents) as it was.
C14_ReportNeedsParticipant ==
  [][(/\ resp'.op = "movie"
      /\ resp'.room \in DOMAIN rooms
      /\ ~Includes(rooms[resp'.room].participants, resp'.user))
     => /\ resp'.status = 403
        /\ rooms'[resp'.room].movie = rooms[resp'.room].movie
        /\ rooms'[resp'.room].playbackEvents = rooms[resp'.room].playbackEvents
        /\ rooms'[resp'.room].syncEvents = rooms[resp'.room].syncEvents]_vars

\* A report was refused while the room had a movie and a logged event.
C14_Witness ==
  /\ resp.op = "movie" /\ resp.status = 403
  /\ ~Includes(rooms[resp.room].participants, resp.user)
  /\ rooms[resp.room].movie # NoMovie
  /\ rooms[resp.room].playbackEvents # <<>>

\* The report route accepted the last request.
ReportAccepted ==
  resp'.op = "movie" /\ resp'.status = 200 /\ resp'.room \in DOMAIN rooms

\* C15 as stated: after an accepted report R the movie has exactly R's
\* fields, with R's values, and lastUpdated; nothing else.
C15_ExactlyPayload ==
  [][ReportAccepted =>
       \A body \in ClockReports :
         UpdateMovie(resp'.user, resp'.room, body) =>
           rooms'[resp'.room].movie = Merge(body, [lastUpdated |-> clock])]_vars

\* C15, amended: after an accepted report R the movie has exactly the fields
\* of R that the movie schema declares, with R's values, and lastUpdated set
\* to the time of the report; a field of the previous movie that R omits is
\* gone.
C15_TotalReplace ==
  [][ReportAccepted =>
       \A body \in ClockReports :
         UpdateMovie(resp'.user, resp'.room, body) =>
           LET movie == rooms'[resp'.room].movie
               sent == (DOMAIN body \cap MoviePaths) \ {"lastUpdated"}
           IN  /\ DOMAIN movie = sent \cup {"lastUpdated"}
               /\ \A f \in sent : movie[f] = body[f]
               /\ movie.lastUpdated = clock
               /\ \A f \in DOMAIN rooms[resp'.room].movie :
                    f \notin DOMAIN body /\ f # "lastUpdated" => f \notin DOMAIN movie]_vars

\* A report without title was accepted at a later time than the write that
\* gave the room a title, and the title is gone.
C15_Witness ==
  /\ resp.op = "movie" /\ resp.status = 200
  /\ "title" \notin DOMAIN rooms[resp.room].movie
  /\ rooms[resp.room].movie.lastUpdated > 0
  /\ Len(rooms[resp.room].playbackEvents) = 1

\* C16: a request that writes the movie (a create with a movie, an accepted
\* report, a select, a settings update with videoLink) leaves
\* movie.lastUpdated equal to the time of that request.
C16_LastUpdatedOnWrite ==
  [][(/\ resp'.op \in {"create", "movie", "select", "settings"}
      /\ resp'.status \in {200, 201}
      /\ resp'.room \in DOMAIN rooms'
      /\ resp'.room \in DOMAIN rooms
           => rooms'[resp'.room].movie # rooms[resp'.room].movie
      /\ rooms'[resp'.room].movie # NoMovie)
     => /\ "lastUpdated" \in DOMAIN rooms'[resp'.room].movie
        /\ rooms'[resp'.room].movie.lastUpdated = clock]_vars

\* C17: an add by a participant appends exactly one entry at the end of the
\* room's watchlist, with addedBy the requester and votes holding the
\* requester alone, whether or not the movie id is already listed, and
\* leaves the entries before it as they were; an add by a user who is not a
\* participant is 403 and changes nothing.
C17_AddAppends ==
  [][(resp'.op = "add" /\ resp'.room \in DOMAIN rooms) =>
       LET u == resp'.user
           old == rooms[resp'.room].watchlist
           new == rooms'[resp'.room].watchlist
       IN  IF Includes(rooms[resp'.room].participants, u)
           THEN /\ resp'.status = 200
                /\ Len(new) = Len(old) + 1
                /\ SubSeq(new, 1, Len(old)) = old
                /\ Last(new).movie.id = resp'.arg
                /\ Last(new).addedBy = u
                /\ "votes" \in DOMAIN Last(new)
                /\ Last(new).votes = <<u>>
           ELSE resp'.status = 403 /\ rooms' = rooms]_vars

\* No two entries of the list carry the same movie id.
DistinctIds(list) ==
  \A i, j \in DOMAIN list : list[i].movie.id = list[j].movie.id => i = j

\* C18: an add to a user's watchlist of a movie whose id an entry of the
\* list already carries is rejected (400, the duplicate-entry conflict) and
\* leaves the list as it was; and after every add, remove, vote or select no
\* user's watchlist holds two entries with the same movie id.
C18_UserWatchlistDedup ==
  [][/\ (/\ resp'.op = "userAdd"
         /\ \E i \in DOMAIN userWatchlist[resp'.user] :
              userWatchlist[resp'.user][i].movie.id = resp'.arg)
        => (resp'.status = 400 /\ userWatchlist' = userWatchlist)
     /\ \A u \in Users : DistinctIds(userWatchlist'[u])]_vars

\* A second add of a listed id, with another title, was rejected while the
\* list held two movies.
C18_Witness ==
  /\ resp.op = "userAdd" /\ resp.status = 400
  /\ Len(userWatchlist[resp.user]) = 2
  /\ \E i \in DOMAIN userWatchlist[resp.user] :
       /\ userWatchlist[resp.user][i].movie.id = resp.arg
       /\ userWatchlist[resp.user][i].movie.title = "t2"

\* C19: an event a connection emits for roomId reaches exactly the
\* connections joined to roomId at that moment when it is poll-update or
\* new-trivia, and exactly those but the sender when it is video-sync or
\* user-synced; a connection that is not joined to roomId (it never joined,
\* it left, or it was closed) is not reached.
C19_RelayFanOut ==
  [][delivered'.event \in RelayAll \cup RelayOthers =>
       LET joined == channels[delivered'.room] IN
       /\ delivered'.event \in RelayAll => delivered'.to = joined
       /\ delivered'.event \in RelayOthers
            => delivered'.to = joined \ {delivered'.sender}
       /\ \A c \in Connections : c \notin joined => c \notin delivered'.to
       /\ (delivered.event \in {"leave-room", "disconnect"}
            /\ delivered.room \in {None, delivered'.room})
            => delivered.sender \notin delivered'.to]_vars

\* A video-sync from a joined connection reached another joined connection,
\* not the sender and not a connection that is open but not joined.
C19_Witness ==
  /\ delivered.event = "video-sync"
  /\ delivered.sender \in channels[delivered.room]
  /\ delivered.to # {}
  /\ delivered.sender \notin delivered.to
  /\ \E c \in sockets : c \notin channels[delivered.room] /\ c # delivered.sender

\* The request before this one was the creator's settings update that set
\* maxParticipants below the number of participants of the room.
LimitLowered ==
  /\ resp.op = "settings" /\ resp.status = 200 /\ resp.arg # None
  /\ resp.arg < Len(rooms[resp.room].participants)

\* C20: a settings update removes no participant; and when the creator has
\* just lowered maxParticipants below |participants|, the next join or get
\* on that room succeeds for a participant and is 403, adding nobody, for a
\* user who is not a participant.
C20_LimitNotRetroactive ==
  [][/\ (resp'.op = "settings" /\ resp'.room \in DOMAIN rooms)
          => rooms'[resp'.room].participants = rooms[resp'.room].participants
     /\ (/\ LimitLowered
         /\ resp'.op \in {"join", "get"}
         /\ resp'.room = resp.room)
          => IF Includes(rooms[resp.room].participants, resp'.user)
             THEN resp'.status = 200
             ELSE resp'.status = 403 /\ rooms' = rooms]_vars

\* C21: an accepted report appends exactly one entry to playbackEvents, of
\* a type of the schema's enum, with userId the requester and timestamp the
\* time of the report; and no request of any kind changes or removes an
\* entry already in playbackEvents or syncEvents.
C21_EventLog ==
  [][/\ (ReportAccepted /\ clock' = clock) =>
          LET old == rooms[resp'.room].playbackEvents
              new == rooms'[resp'.room].playbackEvents
          IN  /\ Len(new) = Len(old) + 1
              /\ Last(new).type \in {"play", "pause", "seek", "sync"}
              /\ Last(new).userId = resp'.user
              /\ Last(new).timestamp = clock
     /\ \A i \in DOMAIN rooms :
          /\ IsPrefix(rooms[i].playbackEvents, rooms'[i].playbackEvents)
          /\ IsPrefix(rooms[i].syncEvents, rooms'[i].syncEvents)]_vars

\* A second report, by another user and at a later time, was logged behind
\* the first, which classified differently.
C21_Witness ==
  /\ resp.op = "movie" /\ resp.status = 200
  /\ Len(rooms[resp.room].playbackEvents) = 2
  /\ rooms[resp.room].playbackEvents[1].userId # rooms[resp.room].playbackEvents[2].userId
  /\ rooms[resp.room].playbackEvents[1].type # rooms[resp.room].playbackEvents[2].type
  /\ rooms[resp.room].playbackEvents[1].timestamp < rooms[resp.room].playbackEvents[2].timestamp
  /\ rooms[resp.room].syncEvents # <<>>

\* Slot s holds a report that this step completes.
Completes(s, op) ==
  inflight[s] # Idle /\ inflight[s].op = op /\ inflight'[s] = Idle

\* C22: when reports on a room overlap, each report of a participant is
\* answered 200, and after each save the movie is, field for field, the one
\* that report alone writes (its payload as the schema casts it, and
\* lastUpdated): no field of the movie another report wrote in between, or
\* of the movie this report read, remains.
C22_LastWriterWins ==
  [][\A s \in Slots :
       (/\ Completes(s, "movie")
        /\ inflight[s].found
        /\ IsParticipant(inflight[s].doc, inflight[s].user))
       => LET body == inflight[s].body
              movie == rooms'[inflight[s].id].movie
              sent == (DOMAIN body \cap MoviePaths) \ {"lastUpdated"}
          IN  /\ resp'.status = 200
              /\ DOMAIN movie = sent \cup {"lastUpdated"}
              /\ \A f \in sent : movie[f] = body[f]]_vars

\* Two reports overlapped: the second to save had read the room before the
\* first saved; the movie keeps nothing of the first (its title and url are
\* gone), and both events are in the log.
C22_Witness ==
  /\ resp.op = "movie" /\ resp.status = 200
  /\ resp.arg.overlapped
  /\ Len(rooms[resp.room].playbackEvents) = 2
  /\ rooms[resp.room].playbackEvents[1].userId # resp.user
  /\ DOMAIN rooms[resp.room].movie
       = {"currentTime", "isPlaying", "thumbnail", "lastUpdated"}

\* C23: capacity under interleaving.  Whatever the order of the read and
\* write steps of overlapping join and get requests by users who are not
\* participants, no admission leaves more participants in the room than its
\* limit.
C23_CapacityUnderInterleaving ==
  [][\A s \in Slots :
       (/\ Completes(s, "join") \/ Completes(s, "get")
        /\ resp'.status = 200
        /\ resp'.arg.admitted)
       => Len(rooms'[inflight[s].id].participants)
            <= ParticipantLimit(rooms'[inflight[s].id])]_vars

\* The stored answers of trivia t that are correct.
CorrectAnswers(t) == {a \in answers : a.triviaId = t /\ a.isCorrect}

\* C24: the first answer is final under interleaving.  Whatever the order of
\* the steps of overlapping answer requests, there is at most one stored
\* answer per user and trivia, a stored answer and its isCorrect never
\* change, and the points are incremented at most once for the user: a
\* request comes to increment them only by storing the user's first answer,
\* and they change only by such a request's increment.
C24_FirstAnswerFinal ==
  [][/\ \A a \in answers : a \in answers'
     /\ \A a, b \in answers' :
          a.userId = b.userId /\ a.triviaId = b.triviaId => a = b
     /\ \A s \in Slots :
          (/\ inflight'[s] # Idle /\ inflight'[s].op = "answer"
           /\ inflight'[s].stage = "points"
           /\ inflight[s] # inflight'[s])
          => /\ ExistingAnswer(inflight'[s].user, inflight'[s].id) = {}
             /\ answers' = answers \cup
                  {[userId |-> inflight'[s].user, triviaId |-> inflight'[s].id,
                    answer |-> inflight'[s].body, isCorrect |-> TRUE]}
     /\ \A t \in DOMAIN trivias :
          trivias'[t].points # trivias[t].points
          => \E s \in Slots :
               /\ Completes(s, "answer") /\ inflight[s].stage = "points"
               /\ inflight[s].id = t
               /\ trivias'[t].points = inflight[s].doc.points + 1]_vars

\* The second of two overlapping requests of one user, both past the lookup
\* of the stored answer, was refused by the unique index; the user's first
\* answer is stored, correct, and counted once.
C24_Witness ==
  /\ resp.op = "answer" /\ resp.status = 500 /\ resp.reason = "duplicate"
  /\ Cardinality(ExistingAnswer(resp.user, 1)) = 1
  /\ \A a \in ExistingAnswer(resp.user, 1) : a.isCorrect
  /\ Quiet
  /\ trivias[1].points = 1

\* C30 as stated: the points of a trivia equal the number of its stored
\* correct answers whenever no answer request is between its steps,
\* overlapping correct answers by different users included.
C30_PointsAccounting ==
  Quiet => \A t \in DOMAIN trivias :
             trivias[t].points = Cardinality(CorrectAnswers(t))

\* C25 as stated: once a room is inactive, every get, join, playback report,
\* watchlist add, vote and select and settings update addressed to it is
\* answered 404 and leaves the rooms as they were.
C25_InactiveNotFound ==
  [][(/\ resp'.op \in {"get", "join", "movie", "add", "vote", "select",
                       "settings"}
      /\ resp'.room \in DOMAIN rooms
      /\ ~rooms[resp'.room].isActive)
     => resp'.status = 404 /\ rooms' = rooms]_vars

\* C26: admission to a private room.  A private room starts with its creator
\* as the only participant, and a step that adds a user to the participants
\* of a private room is a join by that user, who is the room's creator or
\* sent the room's invite code; a get adds nobody to a private room.
C26_PrivateAdmission ==
  [][/\ \A r \in DOMAIN rooms' :
          r \notin DOMAIN rooms /\ rooms'[r].isPrivate
          => rooms'[r].participants = <<rooms'[r].creator>>
     /\ \A r \in DOMAIN rooms, u \in Users :
          (/\ rooms[r].isPrivate
           /\ ~Includes(rooms[r].participants, u)
           /\ Includes(rooms'[r].participants, u))
          => /\ resp'.op = "join" /\ resp'.user = u /\ resp'.room = r
             /\ \A roomId \in {None} \cup DOMAIN rooms,
                   inviteCode \in {None} \cup Codes :
                  JoinRoom(u, roomId, inviteCode)
                  => \/ u = rooms[r].creator /\ roomId = r
                     \/ inviteCode = rooms[r].inviteCode]_vars

\* A user other than the creator has just entered a private room by a join.
C26_Witness ==
  /\ resp.op = "join" /\ resp.status = 200 /\ resp.arg.admitted
  /\ rooms[resp.room].isPrivate
  /\ resp.user # rooms[resp.room].creator
  /\ Includes(rooms[resp.room].participants, resp.user)

\* C27: a room request that ends in a 4xx status leaves the stored rooms as
\* they were; a get that removed banned participants from its copy of the
\* room and then ends in 403 stores nothing of it.
C27_RejectionsKeepState ==
  [][(/\ resp'.op \in {"create", "join", "get", "delete", "settings", "movie",
                       "add", "vote", "select"}
      /\ resp'.status \in 400..499)
     => rooms' = rooms]_vars

\* A get by an outsider was answered 403 while a banned user was among the
\* participants of the room; the banned user is still stored there.
C27_Witness ==
  /\ resp.op = "get" /\ resp.status = 403 /\ resp.reason = "private"
  /\ resp.room \in DOMAIN rooms
  /\ resp.user \notin rooms[resp.room].bannedUsers
  /\ Range(rooms[resp.room].participants) \cap rooms[resp.room].bannedUsers # {}

\* No user is twice in the votes of any entry of the list.
SingleVotes(list) ==
  \A i \in DOMAIN list :
    "votes" \in DOMAIN list[i]
    => \A j, k \in DOMAIN list[i].votes :
         list[i].votes[j] = list[i].votes[k] => j = k

\* C28: no double votes.  After every step, overlapping vote requests of one
\* user on one entry included, the votes of every entry of every user's and
\* every room's watchlist hold a user at most once; and a vote request that
\* found the user in the entry's votes and succeeds leaves the user out of
\* them.
C28_NoDoubleVotes ==
  [][/\ \A u \in Users : SingleVotes(userWatchlist'[u])
     /\ \A r \in DOMAIN rooms' : SingleVotes(rooms'[r].watchlist)
     /\ \A s \in Slots :
          (/\ Completes(s, "userVote") /\ resp'.status = 200
           /\ VotedFor(inflight[s].doc[FindItem(inflight[s].doc, inflight[s].body)],
                       inflight[s].user))
          => ~VotedFor(userWatchlist'[inflight[s].user]
                         [FindItem(inflight[s].doc, inflight[s].body)],
                       inflight[s].user)]_vars

\* Of two overlapping votes of one user on an entry the user had not voted
\* for, the first was stored and the second has just been refused: the user
\* is in the entry's votes once.
C28_Witness ==
  /\ resp.op = "userVote" /\ resp.status = 500 /\ resp.reason = "version"
  /\ Quiet
  /\ FindItem(userWatchlist[resp.user], resp.arg) # None
  /\ userWatchlist[resp.user][FindItem(userWatchlist[resp.user], resp.arg)].votes
       = <<resp.user>>

\* The positions of list whose entry has another id than movieId.
OtherIds(list, movieId) == {i \in DOMAIN list : list[i].movie.id # movieId}

====
